---------------------------- MODULE Spec2Model ----------------------------
(***************************************************************************)
(* USB Power Tester (ATtiny25/45/85 + INA219 + SSD1306 OLED), firmware     *)
(* v1.4: the measurement loop of main(), the INA219 register decoders and  *)
(* the decimal printers of the OLED driver.                                *)
(*                                                                         *)
(* uint32_t values are kept as two 16-bit words [hi, lo] so that the       *)
(* arithmetic of the AVR (modulo 2^32) is computed exactly.                *)
(***************************************************************************)
EXTENDS Integers, Sequences, FiniteSets, TLC

VARIABLES
    voltage, current, power,          \* uint16_t: mV, mA, mW of the last iteration
    minvoltage, maxvoltage,           \* uint16_t extrema
    mincurrent, maxcurrent,
    minpower, maxpower,
    lastmillis, interval, duration,   \* uint32_t timing values
    seconds,                          \* uint16_t total duration in seconds
    capacity, energy,                 \* uint32_t accumulators (uAh, uWh)
    primescreen, lastbutton,          \* uint8_t screen selection and button flag
    MIL_counter,                      \* volatile uint32_t millis counter
    iter,                             \* number of completed main-loop iterations
    pinSet,                           \* level of PIN_SET sampled by the last poll (2: no poll yet)
    presses,                          \* polls that sampled "pressed" right after a poll that sampled "released"
    heldPolls,                        \* consecutive polls, up to the last one, that sampled "pressed"
    rendered,                         \* the calls of OLED functions made by the last iteration, in order
    callee, arg, ret, plotted,        \* a single call of a decoder or printer: function, argument, result, glyphs
    SREG_I,                           \* global interrupt enable flag
    OCF0A,                            \* timer0 compare match A interrupt flag (1: interrupt pending)
    milPc,                            \* position of the main program in MIL_read
    milResult,                        \* MIL_read: the bytes of result copied so far, low byte first
    milSeen,                          \* values MIL_counter has held since the running MIL_read was called
    milTicks,                         \* compare matches so far
    ddrSDA, ddrSCL,                   \* DDRB bits of PIN_SDA and PIN_SCL (1: output, line driven low; 0: released)
    busCall,                          \* the I2C function being executed, with its argument
    busOps,                           \* line operations the running I2C function has still to execute
    busQueue,                         \* I2C calls the running driver function has still to make
    lineOps,                          \* line operations executed by the running I2C function
    clocks,                           \* number of times the running I2C function has released the clock
    data,                             \* I2C_read: the local variable data
    samples,                          \* I2C_read: the levels sampled, each with the clock pulse and clock state
    rets,                             \* bytes returned by I2C_read in the running driver function
    pulses,                           \* clock pulses of the byte on the wire: SDA as driven and as seen at the rise
    wire,                             \* the running bus transaction: start/stop conditions and bytes
    slaveMode,                        \* how the other end of the bus behaves
    slaveData,                        \* bytes a responding slave will send when read
    slaveByte,                        \* the byte the slave is sending
    slavePull,                        \* 1: the slave holds SDA low
    progPc,                           \* where main() is: "setup", "read" (sensor), "render", "loop" (bus not modelled)
    todo,                             \* driver calls main() has still to make at this place
    drv,                              \* the INA or OLED function being executed
    txnLog,                           \* the bus traffic of the INA219 functions completed since reset
    results,                          \* values returned by INA_read in this iteration
    evalOrder,                        \* operand evaluated first in INA_read's expression of two I2C_read calls
    sketch                            \* the globals of the library-backed sketch

vars == << voltage, current, power, minvoltage, maxvoltage, mincurrent,
           maxcurrent, minpower, maxpower, lastmillis, interval, duration, seconds,
           capacity, energy, primescreen, lastbutton, MIL_counter, iter,
           pinSet, presses, heldPolls, rendered, callee, arg, ret, plotted,
           SREG_I, OCF0A, milPc, milResult, milSeen, milTicks,
           ddrSDA, ddrSCL, busCall, busOps, busQueue, lineOps, clocks, data,
           samples, rets, pulses, wire, slaveMode, slaveData, slaveByte,
           slavePull, progPc, todo, drv, txnLog, results, evalOrder, sketch >>

MilVars == << SREG_I, OCF0A, milPc, milResult, milSeen, milTicks >>

BusVars == << ddrSDA, ddrSCL, busCall, busOps, busQueue, lineOps, clocks, data,
              samples, rets, pulses, wire, slaveMode, slaveData, slaveByte,
              slavePull >>

ProgVars == << progPc, todo, drv, txnLog, results, evalOrder, sketch >>

\* what the main loop leaves alone
OtherVars == << MilVars, BusVars, ProgVars >>

-----------------------------------------------------------------------------
(* Widths *)

UINT8_MOD  == 256
UINT16_MAX == 65535
UINT16_MOD == 65536

(* uint32_t as two 16-bit words *)
U32(h, l) == [hi |-> h, lo |-> l]

Zero32 == U32(0, 0)

\* a natural number below 2^31 as uint32_t
FromNat(n) == U32(n \div UINT16_MOD, n % UINT16_MOD)

\* the value of a uint32_t below 2^31 (hi < 32768)
ToNat(x) == x.hi * UINT16_MOD + x.lo

\* x + y modulo 2^32
Add32(x, y) ==
    LET l == x.lo + y.lo
    IN  U32((x.hi + y.hi + (l \div UINT16_MOD)) % UINT16_MOD, l % UINT16_MOD)

\* x - y, 0 where y is above x
Sub32_clamped(x, y) ==
    IF x.hi < y.hi \/ (x.hi = y.hi /\ x.lo < y.lo) THEN U32(0, 0)
    ELSE LET l == x.lo - y.lo + UINT16_MOD
         IN  U32(x.hi - y.hi - (IF l < UINT16_MOD THEN 1 ELSE 0), l % UINT16_MOD)

\* x - y modulo 2^32
Sub32(x, y) ==
    LET l == x.lo - y.lo + UINT16_MOD
    IN  U32((x.hi - y.hi + UINT16_MOD - (IF l < UINT16_MOD THEN 1 ELSE 0)) % UINT16_MOD,
            l % UINT16_MOD)

\* x * m modulo 2^32, m a 16-bit value converted to uint32_t
Mul32(x, m) ==
    LET ml == m % 256
        mh == m \div 256
        p0 == x.lo * ml                       \* < 2^24
        p1 == x.lo * mh                       \* < 2^24, weight 2^8
        h0 == (x.hi * ml) % UINT16_MOD        \* weight 2^16
        h1 == ((x.hi * mh) % 256) * 256       \* weight 2^16
        a  == FromNat(p0)
        b  == U32((p1 \div 256) % UINT16_MOD, (p1 % 256) * 256)
        c  == U32((h0 + h1) % UINT16_MOD, 0)
    IN  Add32(Add32(a, b), c)

\* x / d, unsigned 32-bit division by a constant d < 2^15
Div32(x, d) ==
    LET t == (x.hi % d) * UINT16_MOD + x.lo
    IN  U32(x.hi \div d, t \div d)

\* x % d
Mod32(x, d) == ((x.hi % d) * UINT16_MOD + x.lo) % d

\* x <= y as unsigned 32-bit values
Leq32(x, y) == x.hi < y.hi \/ (x.hi = y.hi /\ x.lo <= y.lo)

RECURSIVE BitAnd(_, _)
BitAnd(a, b) ==
    IF a = 0 \/ b = 0 THEN 0
    ELSE (a % 2) * (b % 2) + 2 * BitAnd(a \div 2, b \div 2)

-----------------------------------------------------------------------------
(* I2C master, bit-banged on DDRB.  An I2C function is the list of the     *)
(* line operations (the macros of the source) it executes, in order.       *)

\* the transmit loop sending the least significant bit first
RECURSIVE WriteLoop_lsb(_, _)
WriteLoop_lsb(i, byte) ==
    IF i = 0 THEN << >>
    ELSE << IF byte % 2 = 1 THEN "SDA_HIGH" ELSE "SDA_LOW", "SCL_HIGH", "SCL_LOW" >>
         \o WriteLoop_lsb(i - 1, byte \div 2)

\* for(i=8; i; i--, data<<=1) { (data&0x80)?SDA_HIGH:SDA_LOW; CLOCKOUT }
RECURSIVE WriteLoop(_, _)
WriteLoop(i, byte) ==
    IF i = 0 THEN << >>
    ELSE << IF byte \div 128 = 1 THEN "SDA_HIGH" ELSE "SDA_LOW", "SCL_HIGH", "SCL_LOW" >>
         \o WriteLoop(i - 1, (byte * 2) % UINT8_MOD)

\* I2C_write(uint8_t data)
I2C_write(byte) ==
    WriteLoop(8, byte % UINT8_MOD) \o << "SDA_HIGH", "SCL_HIGH", "SCL_LOW" >>

\* a start condition that lowers the clock before the data line
I2C_start_clockFirst(addr) == << "SCL_LOW", "SDA_LOW" >> \o I2C_write(addr)

\* I2C_start(uint8_t addr)
I2C_start(addr) == << "SDA_LOW", "SCL_LOW" >> \o I2C_write(addr)

\* I2C_restart(uint8_t addr)
I2C_restart(addr) == << "SDA_HIGH", "SCL_HIGH" >> \o I2C_start(addr)

\* I2C_stop()
I2C_stop == << "SDA_LOW", "SCL_HIGH", "SDA_HIGH" >>

\* for(i=8; i; i--) { data<<=1; SCL_HIGH; if(SDA_READ) data|=1; SCL_LOW }
RECURSIVE ReadLoop(_)
ReadLoop(i) ==
    IF i = 0 THEN << >>
    ELSE << "SCL_HIGH", "SDA_READ", "SCL_LOW" >> \o ReadLoop(i - 1)

\* I2C_read acknowledging exactly when it should not
I2C_read_inverted(ack) ==
    << "SDA_HIGH" >> \o ReadLoop(8)
    \o (IF ack = 0 THEN << "SDA_LOW" >> ELSE << >>) \o << "SCL_HIGH", "SCL_LOW" >>

\* I2C_read(uint8_t ack)
I2C_read(ack) ==
    << "SDA_HIGH" >> \o ReadLoop(8)
    \o (IF ack # 0 THEN << "SDA_LOW" >> ELSE << >>) \o << "SCL_HIGH", "SCL_LOW" >>

NoBusCall == [fn |-> "none", arg |-> 0]

\* the line operations of a call
CallOps(c) ==
    CASE c.fn = "I2C_start"   -> I2C_start(c.arg)
      [] c.fn = "I2C_restart" -> I2C_restart(c.arg)
      [] c.fn = "I2C_write"   -> I2C_write(c.arg)
      [] c.fn = "I2C_read"    -> I2C_read(c.arg)
      [] c.fn = "I2C_stop"    -> I2C_stop

\* a master that holds the clock released until the data line is low
NextOps_untilLow(ops, level) ==
    IF Head(ops) = "SCL_HIGH" /\ level = 1 THEN ops ELSE Tail(ops)

\* the functions are straight-line code and counted loops: after a line
\* operation the next one follows, whatever the level of the data line
NextOps(ops, level) == Tail(ops)

\* bit k of a byte
Bit(byte, k) == (byte \div (2 ^ k)) % 2

\* the number whose binary digits are the sequence, first element first
RECURSIVE BitsValue(_)
BitsValue(bits) ==
    IF bits = << >> THEN 0
    ELSE 2 * BitsValue(SubSeq(bits, 1, Len(bits) - 1)) + bits[Len(bits)]

\* What the other end does to SDA during the clock pulse that follows n
\* pulses of the current byte: "absent" never pulls the line low, "stuck"
\* always does, "device" acknowledges each byte written to it and sends
\* the bits of its byte when read.
SlavePull(mode, n, reading, byte) ==
    CASE mode = "stuck"  -> 1
      [] mode = "absent" -> 0
      [] mode = "device" ->
            IF reading THEN (IF n < 8 THEN 1 - Bit(byte, 7 - n) ELSE 0)
            ELSE (IF n = 8 THEN 1 ELSE 0)

\* PINB & (1<<PIN_SDA): the line is high unless someone pulls it low
I2C_SDA_READ(ddr, pull) == IF ddr = 1 \/ pull = 1 THEN 0 ELSE 1

\* the byte of nine clock pulses: as sent by the master and as seen on the line
WireByte(ps) ==
    [sent    |-> BitsValue([k \in 1..8 |-> 1 - ps[k].drv]),
     sentAck |-> ps[9].drv,
     seen    |-> BitsValue([k \in 1..8 |-> ps[k].lvl]),
     seenAck |-> 1 - ps[9].lvl]

\* no I2C activity: both lines released
BusIdle ==
    /\ ddrSDA = 0 /\ ddrSCL = 0
    /\ busCall = NoBusCall /\ busOps = << >> /\ busQueue = << >>
    /\ lineOps = 0 /\ clocks = 0 /\ data = 0 /\ samples = << >>
    /\ rets = << >> /\ pulses = << >> /\ wire = << >>
    /\ slaveMode = "device" /\ slaveData = << >> /\ slaveByte = 255
    /\ slavePull = 0

NoDriver == [fn |-> "none", args |-> << >>]

\* main() in its loop, the bus traffic of the drivers left out
ProgIdle ==
    /\ progPc = "loop" /\ todo = << >> /\ drv = NoDriver
    /\ txnLog = << >> /\ results = << >> /\ evalOrder = "left"

-----------------------------------------------------------------------------
(* INA219 *)

\* the voltage decode with only the lowest bit masked off
INA_readVoltage_mask1(reg) == BitAnd(reg \div 2, 65534)

\* INA_readVoltage, applied to the register content INA_read(INA_REG_VOLTAGE) returned
INA_readVoltage(reg) == BitAnd(reg \div 2, 65532)

\* the current decode with the clamp one too late (0x8000 passes)
INA_readCurrent_late(reg) == IF reg > 32768 THEN 0 ELSE reg

\* INA_readCurrent, applied to the register content INA_read(INA_REG_CURRENT) returned
INA_readCurrent(reg) == IF reg > 32767 THEN 0 ELSE reg

-----------------------------------------------------------------------------
(* OLED: the decimal printers.  A printer's result is the sequence of      *)
(* glyph indices it hands to OLED_plotChar between I2C_start and I2C_stop. *)

OLED_ADDR == 120
OLED_CMD_MODE == 0
OLED_DAT_MODE == 64

\* OLED init settings
OLED_INIT_CMD ==
    << 168, 31, 32, 1, 218, 2, 141, 20, 175, 161, 200 >>

\* OLED 6x16 font: 12 bytes per character
OLED_FONT ==
    << 124, 31, 2, 32, 2, 32, 2, 32, 2, 32, 124, 31,
       0, 0, 0, 0, 0, 0, 0, 0, 0, 0, 124, 31,
       0, 31, 130, 32, 130, 32, 130, 32, 130, 32, 124, 0,
       0, 0, 130, 32, 130, 32, 130, 32, 130, 32, 124, 31,
       124, 0, 128, 0, 128, 0, 128, 0, 128, 0, 124, 31,
       124, 0, 130, 32, 130, 32, 130, 32, 130, 32, 0, 31,
       124, 31, 130, 32, 130, 32, 130, 32, 130, 32, 0, 31,
       124, 0, 2, 0, 2, 0, 2, 0, 2, 0, 124, 31,
       124, 31, 130, 32, 130, 32, 130, 32, 130, 32, 124, 31,
       124, 0, 130, 32, 130, 32, 130, 32, 130, 32, 124, 31,
       0, 0, 240, 63, 140, 0, 130, 0, 140, 0, 240, 63,
       0, 0, 254, 7, 0, 24, 0, 32, 0, 24, 254, 7,
       0, 0, 254, 31, 0, 32, 0, 31, 0, 32, 254, 31,
       0, 0, 254, 63, 0, 1, 128, 0, 128, 0, 0, 63,
       0, 0, 128, 63, 128, 0, 128, 63, 128, 0, 0, 63,
       0, 0, 0, 0, 0, 48, 0, 48, 0, 0, 0, 0,
       0, 0, 0, 0, 48, 6, 48, 6, 0, 0, 0, 0,
       128, 0, 128, 0, 128, 0, 128, 0, 128, 0, 128, 0,
       0, 0, 0, 0, 0, 0, 0, 0, 0, 0, 0, 0 >>

SPACE == 18

\* OLED BCD conversion array
DIVIDER == << 10000, 1000, 100, 10, 1 >>

\* the subtraction loop with > in place of >=
SubtractLoop_strict(value, divider, digitval) ==
    LET RECURSIVE Go(_, _)
        Go(v, d) == IF v > divider THEN Go(v - divider, (d + 1) % UINT8_MOD)
                    ELSE [digitval |-> d, value |-> v]
    IN  Go(value, digitval)

\* while(value >= divider) {digitval++; value -= divider;}  (digitval is a uint8_t)
SubtractLoop(value, divider, digitval) ==
    LET RECURSIVE Go(_, _)
        Go(v, d) == IF v >= divider THEN Go(v - divider, (d + 1) % UINT8_MOD)
                    ELSE [digitval |-> d, value |-> v]
    IN  Go(value, digitval)

\* the glyph choice of a zero-filled field
Dec16Glyph_zeroFill(leadflag, digit, digitval) == digitval

\* the glyph choice without the exception for the last digit
Dec16Glyph_nolast(leadflag, digit, digitval) ==
    IF leadflag # 0 THEN digitval ELSE SPACE

\* if(leadflag || (digit == 4)) OLED_plotChar(digitval); else OLED_plotChar(SPACE);
Dec16Glyph(leadflag, digit, digitval) ==
    IF leadflag # 0 \/ digit = 4 THEN digitval ELSE SPACE

\* OLED_printDec16(uint16_t value)
OLED_printDec16(value) ==
    LET RECURSIVE Go(_, _, _, _)
        Go(digit, v, leadflag, out) ==
            IF digit >= 5 THEN out
            ELSE LET divider == DIVIDER[digit + 1]
                     r  == SubtractLoop(v, divider, 0)
                     lf == IF v >= divider THEN 1 ELSE leadflag
                 IN  Go(digit + 1, r.value, lf,
                        Append(out, Dec16Glyph(lf, digit, r.digitval)))
    IN  Go(0, value, 0, << >>)

\* OLED_printDec12(uint16_t value)
OLED_printDec12(value) ==
    LET RECURSIVE Go(_, _, _)
        Go(digit, v, out) ==
            IF digit >= 5 THEN out
            ELSE LET r == SubtractLoop(v, DIVIDER[digit + 1], 0)
                 IN  Go(digit + 1, r.value, Append(out, r.digitval))
    IN  Go(2, value, << >>)

\* OLED_printDec8(uint8_t value)
OLED_printDec8(value) ==
    LET r == SubtractLoop(value, 10, 0)
    IN  << r.digitval, r.value >>

-----------------------------------------------------------------------------
(* Millis counter *)

\* ISR(TIM0_COMPA_vect), run n times: MIL_counter++ each time
TIM0_COMPA(counter, n) == Add32(counter, FromNat(n))

\* MIL_read: the counter copied with interrupts disabled
MIL_read(counter) == counter

\* byte k (0: lowest) of a uint32_t
Byte32(x, k) ==
    IF k = 0 THEN x.lo % 256
    ELSE IF k = 1 THEN x.lo \div 256
    ELSE IF k = 2 THEN x.hi % 256
    ELSE x.hi \div 256

\* the uint32_t made of four bytes, low byte first
FromBytes(b) == U32(b[3] + 256 * b[4], b[1] + 256 * b[2])

\* MIL_read without the cli(): the flag stays as it was
Cli_missing(i) == i

\* cli(): the global interrupt flag afterwards
Cli(i) == 0

\* the timer and the main program outside MIL_read: interrupts enabled,
\* no compare match pending
MilIdle ==
    /\ SREG_I = 1 /\ OCF0A = 0 /\ milPc = "idle"
    /\ milResult = << >> /\ milSeen = {} /\ milTicks = 0

-----------------------------------------------------------------------------
(* main(): the calculations of one loop iteration *)

\* power = (uint32_t)voltage * current / 1000, stored in a uint16_t
CalcPower(v, c) == ((v * c) \div 1000) % UINT16_MOD

\* the accumulation with the quotient rounded up
Accumulate_roundup(acc, iv, x) == Add32(acc, Div32(Add32(Mul32(iv, x), FromNat(3599)), 3600))

\* acc += interval * x / 3600, all uint32_t
Accumulate(acc, iv, x) == Add32(acc, Div32(Mul32(iv, x), 3600))

\* the comparison of the minimum update reversed
UpdateMin_reversed(min, x) == IF min < x THEN x ELSE min

\* if(min > x) min = x
UpdateMin(min, x) == IF min > x THEN x ELSE min

\* a maximum that follows the reading
UpdateMax_assign(max, x) == x

\* if(max < x) max = x
UpdateMax(max, x) == IF max < x THEN x ELSE max

\* the wrap of the screen index one too late
NextScreen_late(ps) == IF (ps + 1) % UINT8_MOD > 5 THEN 0 ELSE (ps + 1) % UINT8_MOD

\* if(++primescreen > 4) primescreen = 0
NextScreen(ps) == IF (ps + 1) % UINT8_MOD > 4 THEN 0 ELSE (ps + 1) % UINT8_MOD

\* the button check without the lastbutton flag (level-triggered)
CheckButton_level(pin, lb, ps) ==
    IF pin # 0 THEN [lastbutton |-> 0, primescreen |-> ps]
    ELSE [lastbutton |-> 1, primescreen |-> NextScreen(ps)]

\* Check SET button: pin is the level of PIN_SET read from PINB (1: released)
CheckButton(pin, lb, ps) ==
    IF pin # 0 THEN [lastbutton |-> 0, primescreen |-> ps]
    ELSE IF lb = 0 THEN [lastbutton |-> 1, primescreen |-> NextScreen(ps)]
    ELSE [lastbutton |-> lb, primescreen |-> ps]

\* Character definitions
DECIMAL == 15
COLON == 16

\* Some "strings" (terminator: 255)
mA == << 14, 10, 18, 255 >>
mV == << 14, 11, 18, 255 >>
mW == << 14, 12, 18, 255 >>
mAh == << 14, 10, 13, 255 >>
mWh == << 14, 12, 13, 255 >>
SEP == << 18, 17, 18, 255 >>

\* OLED_printPrg taking the space glyph for the terminator
OLED_printPrg_stopAtSpace(p) ==
    LET RECURSIVE Go(_, _)
        Go(k, out) == IF p[k] < SPACE THEN Go(k + 1, Append(out, p[k])) ELSE out
    IN  Go(1, << >>)

\* OLED_printPrg(p): the characters plotted, up to the terminator
\* ch = pgm_read_byte(p); while(ch < 255) {OLED_plotChar(ch); ch = pgm_read_byte(++p);}
OLED_printPrg(p) ==
    LET RECURSIVE Go(_, _)
        Go(k, out) == IF p[k] < 255 THEN Go(k + 1, Append(out, p[k])) ELSE out
    IN  Go(1, << >>)

\* a call of an OLED function: setCursor with its coordinates, a printing
\* function with the characters it plots
DisplayCall(f, a) == [fn |-> f, args |-> a]

\* OLED_printDec8(seconds / 3600), seconds being the uint16_t local
Hours(secs) == (secs \div 3600) % UINT8_MOD

\* the quotient handed to the printer without the conversion to uint16_t
Whole_unconverted(total) == OLED_printDec16(ToNat(Div32(total, 1000)))

\* OLED_printDec16(capacity / 1000): the quotient converted to uint16_t
Whole(total) == OLED_printDec16(Div32(total, 1000).lo)

\* switch(primescreen): the OLED calls of the screen, m holding the values
\* of the locals when the switch is entered
Screen(ps, m) ==
    CASE ps = 0 ->
           << DisplayCall("OLED_setCursor", << 0, 0 >>),
              DisplayCall("OLED_printDec16", OLED_printDec16(m.voltage)),
              DisplayCall("OLED_printPrg", OLED_printPrg(mV)),
              DisplayCall("OLED_printDec16", OLED_printDec16(m.power)),
              DisplayCall("OLED_printPrg", OLED_printPrg(mW)),
              DisplayCall("OLED_setCursor", << 0, 2 >>),
              DisplayCall("OLED_printDec16", OLED_printDec16(m.current)),
              DisplayCall("OLED_printPrg", OLED_printPrg(mA)),
              DisplayCall("OLED_printDec16", Whole(m.capacity)),
              DisplayCall("OLED_printPrg", OLED_printPrg(mAh)) >>
      [] ps = 1 ->
           << DisplayCall("OLED_setCursor", << 0, 0 >>),
              DisplayCall("OLED_printDec16", OLED_printDec16(m.minvoltage)),
              DisplayCall("OLED_printPrg", OLED_printPrg(SEP)),
              DisplayCall("OLED_printDec16", OLED_printDec16(m.maxvoltage)),
              DisplayCall("OLED_printPrg", OLED_printPrg(mV)),
              DisplayCall("OLED_setCursor", << 0, 2 >>),
              DisplayCall("OLED_printDec16", OLED_printDec16(m.mincurrent)),
              DisplayCall("OLED_printPrg", OLED_printPrg(SEP)),
              DisplayCall("OLED_printDec16", OLED_printDec16(m.maxcurrent)),
              DisplayCall("OLED_printPrg", OLED_printPrg(mA)) >>
      [] ps = 2 ->
           << DisplayCall("OLED_setCursor", << 0, 1 >>),
              DisplayCall("OLED_printDec16", OLED_printDec16(m.minpower)),
              DisplayCall("OLED_printPrg", OLED_printPrg(SEP)),
              DisplayCall("OLED_printDec16", OLED_printDec16(m.maxpower)),
              DisplayCall("OLED_printPrg", OLED_printPrg(mW)) >>
      [] ps = 3 ->
           << DisplayCall("OLED_setCursor", << 16, 0 >>),
              DisplayCall("OLED_printDec16", Whole(m.capacity)),
              DisplayCall("OLED_printChar", << DECIMAL >>),
              DisplayCall("OLED_printDec12", OLED_printDec12(Mod32(m.capacity, 1000))),
              DisplayCall("OLED_printPrg", OLED_printPrg(mAh)),
              DisplayCall("OLED_setCursor", << 16, 2 >>),
              DisplayCall("OLED_printDec16", Whole(m.energy)),
              DisplayCall("OLED_printChar", << DECIMAL >>),
              DisplayCall("OLED_printDec12", OLED_printDec12(Mod32(m.energy, 1000))),
              DisplayCall("OLED_printPrg", OLED_printPrg(mWh)) >>
      [] ps = 4 ->
           << DisplayCall("OLED_setCursor", << 32, 1 >>),
              DisplayCall("OLED_printDec8", OLED_printDec8(Hours(m.seconds))),
              DisplayCall("OLED_printChar", << COLON >>),
              DisplayCall("OLED_printDec8", OLED_printDec8(((m.seconds % 3600) \div 60) % UINT8_MOD)),
              DisplayCall("OLED_printChar", << COLON >>),
              DisplayCall("OLED_printDec8", OLED_printDec8(((m.seconds % 3600) % 60) % UINT8_MOD)) >>
      [] OTHER -> << >>

\* a clearing in every iteration
ButtonClear_always(pin, lb) == << DisplayCall("OLED_clearScreen", << >>) >>

\* the button branch that advanced the screen also cleared it
ButtonClear(pin, lb) ==
    IF pin = 0 /\ lb = 0 THEN << DisplayCall("OLED_clearScreen", << >>) >> ELSE << >>

\* One iteration of while(1): regV and regC are the register contents the
\* INA219 returns, ticks the timer interrupts since the previous MIL_read,
\* pin the level of the SET button pin.
\* The bytes the iteration sends to the display (OLED_clearScreen, the
\* screen of the switch) leave every variable of main() except seconds alone.
LoopBody(regV, regC, ticks, pin) ==
    \E v   \in {INA_readVoltage(regV)},
       c   \in {INA_readCurrent(regC)},
       cnt \in {TIM0_COMPA(MIL_counter, ticks)},
       btn \in {CheckButton(pin, lastbutton, primescreen)} :
    \E now \in {MIL_read(cnt)}, p \in {CalcPower(v, c)} :
    \E iv  \in {Sub32(now, lastmillis)} :
    \E dur \in {Add32(duration, iv)},
       cap \in {Accumulate(capacity, iv, c)},
       en  \in {Accumulate(energy, iv, p)},
       mnv \in {UpdateMin(minvoltage, v)},
       mxv \in {UpdateMax(maxvoltage, v)},
       mnc \in {UpdateMin(mincurrent, c)},
       mxc \in {UpdateMax(maxcurrent, c)},
       mnp \in {UpdateMin(minpower, p)},
       mxp \in {UpdateMax(maxpower, p)} :
    \E sec \in {Div32(dur, 1000).lo} :
        /\ voltage' = v
        /\ current' = c
        /\ MIL_counter' = cnt
        /\ interval' = iv
        /\ lastmillis' = now
        /\ duration' = dur
        /\ seconds' = IF btn.primescreen = 4 THEN sec % 3600 ELSE sec
        /\ power' = p
        /\ capacity' = cap
        /\ energy' = en
        /\ minvoltage' = mnv
        /\ maxvoltage' = mxv
        /\ mincurrent' = mnc
        /\ maxcurrent' = mxc
        /\ minpower' = mnp
        /\ maxpower' = mxp
        /\ rendered' = ButtonClear(pin, lastbutton)
                        \o Screen(btn.primescreen,
                                  [voltage |-> v, current |-> c, power |-> p,
                                   minvoltage |-> mnv, maxvoltage |-> mxv,
                                   mincurrent |-> mnc, maxcurrent |-> mxc,
                                   minpower |-> mnp, maxpower |-> mxp,
                                   capacity |-> cap, energy |-> en, seconds |-> sec])
        /\ lastbutton' = btn.lastbutton
        /\ primescreen' = btn.primescreen
        /\ iter' = iter + 1
        /\ pinSet' = pin
        /\ presses' = IF pinSet = 1 /\ pin = 0 THEN presses + 1 ELSE presses
        /\ heldPolls' = IF pin = 0 THEN heldPolls + 1 ELSE 0

\* one iteration, the bus traffic of its driver calls left out
Loop(regV, regC, ticks, pin) ==
    /\ LoopBody(regV, regC, ticks, pin)
    /\ UNCHANGED << callee, arg, ret, plotted, OtherVars >>

-----------------------------------------------------------------------------
(* The library-backed sketch: the same device with TinyI2CMaster,          *)
(* Tiny4kOLED and the millis() of the core. Its globals are the fields of  *)
(* the record sketch; the uint32_t ones are [hi, lo] as above.             *)

\* the globals as defined, then setup(): ms is the value millis() returned
setup(ms) ==
    [voltage |-> 0, current |-> 0, power |-> 0,
     minvoltage |-> 65535, maxvoltage |-> 0,
     mincurrent |-> 65535, maxcurrent |-> 0,
     minpower |-> 65535, maxpower |-> 0,
     startmillis |-> ms, lastmillis |-> ms, nowmillis |-> Zero32,
     interval |-> Zero32, duration |-> Zero32, seconds |-> Zero32,
     capacity |-> Zero32, energy |-> Zero32,
     primescreen |-> 0, lastbutton |-> TRUE]

\* updateINA without the test for negative currents
updateINA_raw(s, regV, regC) ==
    [s EXCEPT !.voltage = BitAnd(regV \div 2, 65532), !.current = regC]

\* updateINA: regV and regC are what readRegister returned for the voltage
\* and the current register
updateINA(s, regV, regC) ==
    [s EXCEPT !.voltage = BitAnd(regV \div 2, 65532),
              !.current = IF regC > 32767 THEN 0 ELSE regC]

\* loop() up to the button check: ms is the value millis() returned, pin the
\* level bitRead(PINB, SETBUTTON) returned
loop(s, regV, regC, ms, pin) ==
    LET ina == updateINA(s, regV, regC)
        p   == ((ina.voltage * ina.current) \div 1000) % UINT16_MOD
        iv  == Sub32(ms, s.lastmillis)
        dur == Sub32(ms, s.startmillis)
    IN  [ina EXCEPT
            !.power = p,
            !.nowmillis = ms,
            !.interval = iv,
            !.duration = dur,
            !.seconds = Div32(dur, 1000),
            !.lastmillis = ms,
            !.capacity = Add32(@, Div32(Mul32(iv, ina.current), 3600)),
            !.energy = Add32(@, Div32(Mul32(iv, p), 3600)),
            !.minvoltage = IF @ > ina.voltage THEN ina.voltage ELSE @,
            !.maxvoltage = IF @ < ina.voltage THEN ina.voltage ELSE @,
            !.mincurrent = IF @ > ina.current THEN ina.current ELSE @,
            !.maxcurrent = IF @ < ina.current THEN ina.current ELSE @,
            !.minpower = IF @ > p THEN p ELSE @,
            !.maxpower = IF @ < p THEN p ELSE @,
            !.lastbutton = IF pin # 0 THEN FALSE ELSE IF ~ @ THEN TRUE ELSE @,
            !.primescreen = IF pin = 0 /\ ~ s.lastbutton
                            THEN (IF (@ + 1) % UINT8_MOD > 4 THEN 0 ELSE (@ + 1) % UINT8_MOD)
                            ELSE @]

\* the sketch after setup() with millis() having returned 0
SketchIdle == sketch = setup(Zero32)

\* The locals of main() when the loop is entered (after setup)
MainInit ==
    /\ voltage = 0 /\ current = 0 /\ power = 0
    /\ minvoltage = 65535 /\ maxvoltage = 0
    /\ mincurrent = 65535 /\ maxcurrent = 0
    /\ minpower = 65535 /\ maxpower = 0
    /\ MIL_counter = Zero32
    /\ lastmillis = MIL_read(Zero32)
    /\ interval = Zero32
    /\ duration = Zero32
    /\ seconds = 0
    /\ capacity = Zero32 /\ energy = Zero32
    /\ primescreen = 0
    /\ lastbutton = 1
    /\ iter = 0 /\ pinSet = 2 /\ presses = 0 /\ heldPolls = 0
    /\ rendered = << >>

NoCall == callee = "none" /\ arg = 0 /\ ret = 0 /\ plotted = << >>

-----------------------------------------------------------------------------
(* Spec: the main loop fed with samples, tick counts and button levels *)

MaxIter == 3

\* register contents: 0x0064, 5000 mV and 20000 mV with status bits set
RawVoltages == {100, 10003, 40007}
\* register contents: 1000 mA, 0x1388, 0x8000
RawCurrents == {1000, 5000, 32768}
\* milliseconds one iteration takes
Intervals == {72, 100}

Init == MainInit /\ NoCall /\ MilIdle /\ BusIdle /\ ProgIdle /\ SketchIdle

Iterate ==
    /\ iter < MaxIter
    /\ \E regV \in RawVoltages, regC \in RawCurrents, ticks \in Intervals, pin \in {0, 1} :
           Loop(regV, regC, ticks, pin)

Next == Iterate

Spec == Init /\ [][Next]_vars

-----------------------------------------------------------------------------
(* SpecButton: a longer run of polls with a steady load, the button free *)

MaxPolls == 12

Poll ==
    /\ iter < MaxPolls
    /\ \E ticks \in Intervals, pin \in {0, 1} : Loop(10003, 1000, ticks, pin)

NextButton == Poll

SpecButton == Init /\ [][NextButton]_vars

-----------------------------------------------------------------------------
(* SpecAged: the device after AgedIters iterations of 100 ms with a steady *)
(* load of 5000 mV and 3600 mA, the button never pressed.  Every iteration *)
(* added the same amounts, so the state is computed in closed form.        *)

AgedIters == 8589934
MaxAgedSteps == 2

AgedInit ==
    LET n   == FromNat(AgedIters)
        v   == INA_readVoltage(10003)
        c   == INA_readCurrent(3600)
        p   == CalcPower(v, c)
        iv  == FromNat(100)
        dur == Mul32(n, 100)
    IN  /\ voltage = v /\ current = c /\ power = p
        /\ minvoltage = v /\ maxvoltage = v
        /\ mincurrent = c /\ maxcurrent = c
        /\ minpower = p /\ maxpower = p
        /\ MIL_counter = dur
        /\ lastmillis = dur
        /\ interval = iv
        /\ duration = dur
        /\ seconds = Div32(dur, 1000).lo
        /\ capacity = Mul32(n, Accumulate(Zero32, iv, c).lo)
        /\ energy = Mul32(n, Accumulate(Zero32, iv, p).lo)
        /\ primescreen = 0
        /\ lastbutton = 0
        /\ iter = AgedIters /\ pinSet = 1 /\ presses = 0 /\ heldPolls = 0
        /\ rendered = Screen(0, [voltage |-> v, current |-> c, power |-> p,
                                 minvoltage |-> v, maxvoltage |-> v,
                                 mincurrent |-> c, maxcurrent |-> c,
                                 minpower |-> p, maxpower |-> p,
                                 capacity |-> Mul32(n, Accumulate(Zero32, iv, c).lo),
                                 energy |-> Mul32(n, Accumulate(Zero32, iv, p).lo),
                                 seconds |-> Div32(dur, 1000).lo])
        /\ NoCall /\ MilIdle /\ BusIdle /\ ProgIdle /\ SketchIdle

IterateAged ==
    /\ iter < AgedIters + MaxAgedSteps
    /\ \E regV \in RawVoltages, regC \in RawCurrents \cup {3600}, ticks \in Intervals, pin \in {0, 1} :
           Loop(regV, regC, ticks, pin)

NextAged == IterateAged

SpecAged == AgedInit /\ [][NextAged]_vars

-----------------------------------------------------------------------------
(* SpecScenario: 5000 mV and 1000 mA for ScenarioMs milliseconds, split    *)
(* into polling intervals whose product with the power fits 32 bits.       *)

ScenarioMs == 3600000
MaxScenarioIter == 8

ScenarioIntervals == {50, 3601, 250000, 600000, 858993}

\* the largest interval whose product with x fits 32 bits
MaxFit(x) == ToNat(Div32(U32(UINT16_MAX, UINT16_MAX), x))

IterateScenario ==
    /\ iter < MaxScenarioIter
    /\ \E ticks \in ScenarioIntervals \cup {ScenarioMs - ToNat(duration)} :
           /\ ticks > 0
           /\ ticks <= ScenarioMs - ToNat(duration)
           /\ ticks <= MaxFit(5000)
           /\ Loop(10003, 1000, ticks, 1)

NextScenario == IterateScenario

SpecScenario == Init /\ [][NextScenario]_vars

-----------------------------------------------------------------------------
(* Claims about the main loop *)

\* C1: after the extrema update of every iteration the stored minimum and
\* maximum of voltage, current and power enclose that iteration's values.
C1_ExtremaEnclose ==
    iter > 0 =>
        /\ minvoltage <= voltage /\ voltage <= maxvoltage
        /\ mincurrent <= current /\ current <= maxcurrent
        /\ minpower <= power /\ power <= maxpower

\* C1 witness: a third sample strictly between the extrema of the first two
C1_Witness ==
    /\ iter > 0
    /\ minvoltage < voltage /\ voltage < maxvoltage
    /\ mincurrent < current /\ current < maxcurrent
    /\ minpower < power /\ power < maxpower

\* C2: capacity and energy never decrease from one iteration to the next
\* (as unsigned 32-bit values).
C2_AccumulatorsNonDecreasing ==
    [][Leq32(capacity, capacity') /\ Leq32(energy, energy')]_vars

\* C3: the screen index is the number of presses modulo 5, and in 0..4.
C3_ScreenIsPressesMod5 ==
    /\ primescreen \in 0..4
    /\ primescreen = presses % 5

\* C3 witness: six presses, the index has wrapped to 1
C3_Witness == presses = 6 /\ primescreen = 1

\* C4: the index advances by one in exactly those polls that sample the
\* button pressed right after a poll that sampled it released; polls that
\* find it still pressed, or released, leave the index alone.
C4_HeldPressAdvancesOnce ==
    [][ IF pinSet = 1 /\ pinSet' = 0
        THEN primescreen' = (primescreen + 1) % 5
        ELSE primescreen' = primescreen ]_vars

\* C4 witness: one press held over three polls moved the index once; after
\* a release a second press moved it again
C4_Witness == heldPolls = 3 /\ presses = 2 /\ primescreen = 2

\* C7: the power used for the energy integral and the power extrema is
\* floor(voltage * current / 1000).
C7_PowerIsProduct ==
    iter > 0 => power = (voltage * current) \div 1000

\* C8: with 5000 mV and 1000 mA the power is 5000 in every iteration; the
\* accumulated capacity and energy never exceed the exact integrals
\* (duration * 1000 / 3600 and duration * 5000 / 3600) and fall short of them
\* by less than one unit per iteration; after 3600000 ms they are in
\* (1000000 - N, 1000000] and (5000000 - N, 5000000].
C8_ScenarioBound ==
    iter > 0 =>
        LET d == ToNat(duration)
            cap == ToNat(capacity)
            en == ToNat(energy)
        IN  /\ voltage = 5000 /\ current = 1000 /\ power = 5000
            /\ 18 * cap <= 5 * d /\ 5 * d < 18 * (cap + iter)
            /\ 18 * en <= 25 * d /\ 25 * d < 18 * (en + iter)
            /\ d = 3600000 =>
                   /\ 1000000 - iter < cap /\ cap <= 1000000
                   /\ 5000000 - iter < en /\ en <= 5000000

\* C8 witness: the hour is complete and truncation has cost something
C8_Witness ==
    /\ ToNat(duration) = 3600000
    /\ ToNat(capacity) < 1000000
    /\ ToNat(energy) < 5000000
    /\ iter >= 5

-----------------------------------------------------------------------------
(* SpecDecode: one call of a register decoder, for every register content *)

CallInit(maxarg) ==
    /\ MainInit
    /\ callee = "none" /\ arg \in 0..maxarg /\ ret = 0 /\ plotted = << >>
    /\ MilIdle /\ BusIdle /\ ProgIdle /\ SketchIdle

MainVars == << voltage, current, power, minvoltage, maxvoltage, mincurrent,
               maxcurrent, minpower, maxpower, lastmillis, interval, duration,
               seconds, capacity, energy, primescreen, lastbutton, MIL_counter,
               iter, pinSet, presses, heldPolls, rendered >>

CallReadVoltage ==
    /\ callee = "none"
    /\ callee' = "INA_readVoltage"
    /\ ret' = INA_readVoltage(arg)
    /\ UNCHANGED << arg, plotted, MainVars, OtherVars >>

CallReadCurrent ==
    /\ callee = "none"
    /\ callee' = "INA_readCurrent"
    /\ ret' = INA_readCurrent(arg)
    /\ UNCHANGED << arg, plotted, MainVars, OtherVars >>

InitDecode == CallInit(UINT16_MAX)

NextDecode == CallReadVoltage \/ CallReadCurrent

SpecDecode == InitDecode /\ [][NextDecode]_vars

-----------------------------------------------------------------------------
(* SpecPrint: one call of a decimal printer.  The argument is converted to *)
(* the parameter's type (uint16_t, uint8_t) by the call.                   *)

MaxPrintArg == 99999
MaxDec12Arg == 1999

CallPrintDec16 ==
    /\ callee = "none"
    /\ callee' = "OLED_printDec16"
    /\ plotted' = OLED_printDec16(arg % UINT16_MOD)
    /\ UNCHANGED << arg, ret, MainVars, OtherVars >>

CallPrintDec12 ==
    /\ callee = "none"
    /\ arg <= MaxDec12Arg
    /\ callee' = "OLED_printDec12"
    /\ plotted' = OLED_printDec12(arg % UINT16_MOD)
    /\ UNCHANGED << arg, ret, MainVars, OtherVars >>

CallPrintDec8 ==
    /\ callee = "none"
    /\ arg < UINT8_MOD
    /\ callee' = "OLED_printDec8"
    /\ plotted' = OLED_printDec8(arg % UINT8_MOD)
    /\ UNCHANGED << arg, ret, MainVars, OtherVars >>

InitPrint == CallInit(MaxPrintArg)

NextPrint == CallPrintDec16 \/ CallPrintDec12 \/ CallPrintDec8

SpecPrint == InitPrint /\ [][NextPrint]_vars

-----------------------------------------------------------------------------
(* SpecMillis: timer0 compare matches, the interrupt routine and calls of  *)
(* MIL_read.  The counter is copied one byte at a time.  The first call    *)
(* is the one of setup (interrupts still disabled since reset, counter 0), *)
(* later ones find the counter at any value.                               *)

MaxTicks == 260

\* the locals of main()
MainLocals == << voltage, current, power, minvoltage, maxvoltage, mincurrent,
                 maxcurrent, minpower, maxpower, lastmillis, interval, duration,
                 seconds, capacity, energy, primescreen, lastbutton,
                 iter, pinSet, presses, heldPolls, rendered >>

\* reset: interrupts disabled, MIL_init has started the timer
InitMillis ==
    /\ MainInit /\ NoCall /\ BusIdle /\ ProgIdle /\ SketchIdle
    /\ SREG_I = 0 /\ OCF0A = 0 /\ milPc = "idle"
    /\ milResult = << >> /\ milSeen = {} /\ milTicks = 0

\* timer0 reaches OCR0A: the hardware sets the interrupt flag
TimerMatch ==
    /\ milTicks < MaxTicks
    /\ OCF0A = 0
    \* a call lasts far less than the 1 ms timer period
    /\ milPc = "idle" \/ Cardinality(milSeen) = 1
    /\ OCF0A' = 1
    /\ milTicks' = milTicks + 1
    /\ UNCHANGED << MIL_counter, SREG_I, milPc, milResult, milSeen, MainLocals, callee, arg, ret, plotted, BusVars, ProgVars >>

\* ISR(TIM0_COMPA_vect): runs when the flag is set and interrupts are enabled
TimerISR ==
    /\ SREG_I = 1
    /\ OCF0A = 1
    /\ OCF0A' = 0
    /\ MIL_counter' = TIM0_COMPA(MIL_counter, 1)
    /\ milSeen' = IF milPc \in {"cli", "read", "sei"}
                  THEN milSeen \cup {MIL_counter'} ELSE milSeen
    /\ UNCHANGED << SREG_I, milPc, milResult, milTicks, MainLocals, callee, arg, ret, plotted, BusVars, ProgVars >>

\* the main program calls MIL_read
MilCall ==
    /\ milPc = "idle"
    /\ milPc' = "cli"
    /\ milResult' = << >>
    /\ milSeen' = {MIL_counter}
    /\ UNCHANGED << MIL_counter, SREG_I, OCF0A, milTicks, MainLocals, callee, arg, ret, plotted, BusVars, ProgVars >>

\* cli()
MilCli ==
    /\ milPc = "cli"
    /\ SREG_I' = Cli(SREG_I)
    /\ milPc' = "read"
    /\ UNCHANGED << MIL_counter, OCF0A, milResult, milSeen, milTicks, MainLocals, callee, arg, ret, plotted, BusVars, ProgVars >>

\* uint32_t result = MIL_counter: one byte per instruction
MilReadByte ==
    /\ milPc = "read"
    /\ milResult' = Append(milResult, Byte32(MIL_counter, Len(milResult)))
    /\ milPc' = IF Len(milResult) = 3 THEN "sei" ELSE "read"
    /\ UNCHANGED << MIL_counter, SREG_I, OCF0A, milSeen, milTicks, MainLocals, callee, arg, ret, plotted, BusVars, ProgVars >>

\* sei()
MilSei ==
    /\ milPc = "sei"
    /\ SREG_I' = 1
    /\ milPc' = "ret"
    /\ UNCHANGED << MIL_counter, OCF0A, milResult, milSeen, milTicks, MainLocals, callee, arg, ret, plotted, BusVars, ProgVars >>

\* return result; the program goes on
MilReturn ==
    /\ milPc = "ret"
    /\ milPc' = "idle"
    /\ milResult' = << >>
    /\ milSeen' = {}
    /\ UNCHANGED << MIL_counter, SREG_I, OCF0A, milTicks, MainLocals, callee, arg, ret, plotted, BusVars, ProgVars >>

NextMillis ==
    \/ TimerMatch \/ TimerISR
    \/ MilCall \/ MilCli \/ MilReadByte \/ MilSei \/ MilReturn

SpecMillis == InitMillis /\ [][NextMillis]_vars

-----------------------------------------------------------------------------
(* SpecReset: from reset through setup into the loop: the timer runs from  *)
(* MIL_init on, setup takes any number of timer periods, the first call of *)
(* MIL_read is the one that initialises lastmillis.                        *)

MaxResetTicks == 6

\* MIL_init with a sei() at its end
MIL_init_sei(i) == 1

\* MIL_init(): timer0 started and its compare interrupt enabled in TIMSK;
\* the global interrupt flag is left as it is
MIL_init(i) == i

\* what lastmillis may hold before it is assigned
Uninitialised == {Zero32, FromNat(1), U32(UINT16_MAX, UINT16_MAX)}

\* reset, MIL_init() done: main's locals as declared, lastmillis not yet
\* assigned
InitReset ==
    /\ voltage = 0 /\ current = 0 /\ power = 0
    /\ minvoltage = 65535 /\ maxvoltage = 0
    /\ mincurrent = 65535 /\ maxcurrent = 0
    /\ minpower = 65535 /\ maxpower = 0
    /\ MIL_counter = Zero32
    /\ lastmillis \in Uninitialised
    /\ interval = Zero32 /\ duration = Zero32 /\ seconds = 0
    /\ capacity = Zero32 /\ energy = Zero32
    /\ primescreen = 0 /\ lastbutton = 1
    /\ iter = 0 /\ pinSet = 2 /\ presses = 0 /\ heldPolls = 0
    /\ rendered = << >>
    /\ NoCall /\ BusIdle
    /\ SREG_I = MIL_init(0) /\ OCF0A = 0 /\ milPc = "idle"
    /\ milResult = << >> /\ milSeen = {} /\ milTicks = 0
    /\ progPc = "setup" /\ todo = << >> /\ drv = NoDriver
    /\ txnLog = << >> /\ results = << >> /\ evalOrder = "left"
    /\ SketchIdle

\* timer0 reaches OCR0A: the hardware sets the interrupt flag.  During
\* INA_init, OLED_init and OLED_clearScreen this happens many times; later
\* the interrupt routine has run before the next match.
ResetMatch ==
    /\ milTicks < MaxResetTicks
    /\ \/ progPc = "setup" /\ milPc = "idle"
       \/ OCF0A = 0 /\ (milPc = "idle" \/ Cardinality(milSeen) = 1)
    /\ OCF0A' = 1
    /\ milTicks' = milTicks + 1
    /\ UNCHANGED << MIL_counter, SREG_I, milPc, milResult, milSeen, MainLocals,
                    callee, arg, ret, plotted, BusVars, ProgVars >>

\* lastmillis = MIL_read(); at the end of setup
MilReturnSetup ==
    /\ milPc = "ret" /\ progPc = "setup"
    /\ lastmillis' = FromBytes(milResult)
    /\ progPc' = "loop"
    /\ milPc' = "idle"
    /\ milResult' = << >>
    /\ milSeen' = {}
    /\ UNCHANGED << MIL_counter, SREG_I, OCF0A, milTicks,
                    voltage, current, power, minvoltage, maxvoltage, mincurrent,
                    maxcurrent, minpower, maxpower, interval, duration,
                    seconds, capacity, energy, primescreen, lastbutton,
                    iter, pinSet, presses, heldPolls, rendered,
                    callee, arg, ret, plotted, BusVars,
                    todo, drv, txnLog, results, evalOrder, sketch >>

\* nowmillis = MIL_read(); in the loop
MilReturnLoop == progPc = "loop" /\ MilReturn

NextReset ==
    \/ ResetMatch \/ TimerISR
    \/ MilCall \/ MilCli \/ MilReadByte \/ MilSei
    \/ MilReturnSetup \/ MilReturnLoop

SpecReset == InitReset /\ [][NextReset]_vars

-----------------------------------------------------------------------------
(* SpecI2C: one call of an I2C function, executed one line operation at a  *)
(* time, for every argument and against every behaviour of the other end.  *)

MaxLineOps == 40

SlaveModes == {"device", "absent", "stuck"}

\* everything but the bus
NonBusVars == << MainVars, callee, arg, ret, plotted, MilVars, ProgVars >>

SymS == [sym |-> "S", sent |-> 0, sentAck |-> 0, seen |-> 0, seenAck |-> 0]
SymP == [sym |-> "P", sent |-> 0, sentAck |-> 0, seen |-> 0, seenAck |-> 0]
SymB(ps) == [sym |-> "B"] @@ WireByte(ps)

\* the lines, the running I2C function and the observer of the bus
BusState ==
    [ddrSDA |-> ddrSDA, ddrSCL |-> ddrSCL, slavePull |-> slavePull,
     busOps |-> busOps, lineOps |-> lineOps, clocks |-> clocks, data |-> data,
     samples |-> samples, pulses |-> pulses, wire |-> wire]

\* One line operation of the running I2C function: the DDRB bit it sets or
\* clears (or the read of PINB), and what an observer of the two lines
\* notes: start and stop conditions, and for each clock pulse SDA as the
\* master drives it and as the line is at the rise of SCL.
LineOp(b, mode, reading, byte) ==
    LET op    == Head(b.busOps)
        pull  == IF op = "SCL_HIGH"
                 THEN SlavePull(mode, Len(b.pulses), reading, byte)
                 ELSE b.slavePull
        sda   == CASE op = "SDA_HIGH" -> 0 [] op = "SDA_LOW" -> 1 [] OTHER -> b.ddrSDA
        scl   == CASE op = "SCL_HIGH" -> 0 [] op = "SCL_LOW" -> 1 [] OTHER -> b.ddrSCL
        level == I2C_SDA_READ(sda, pull)
        startCond == op = "SDA_LOW" /\ b.ddrSDA = 0 /\ b.ddrSCL = 0
        stopCond  == op = "SDA_HIGH" /\ b.ddrSDA = 1 /\ b.ddrSCL = 0
        rise  == op = "SCL_HIGH" /\ b.ddrSCL = 1
        fall  == op = "SCL_LOW" /\ b.ddrSCL = 0
    IN  [ddrSDA    |-> sda,
         ddrSCL    |-> scl,
         slavePull |-> pull,
         busOps    |-> NextOps(b.busOps, level),
         lineOps   |-> IF b.lineOps < MaxLineOps THEN b.lineOps + 1 ELSE b.lineOps,
         clocks    |-> IF rise THEN b.clocks + 1 ELSE b.clocks,
         data      |-> IF op = "SDA_READ" THEN ((b.data * 2) % UINT8_MOD) + level ELSE b.data,
         samples   |-> IF op = "SDA_READ"
                       THEN Append(b.samples, [lvl |-> level, pulse |-> b.clocks, high |-> b.ddrSCL = 0])
                       ELSE b.samples,
         pulses    |-> CASE startCond \/ stopCond -> << >>
                         [] rise -> Append(b.pulses, [drv |-> b.ddrSDA, lvl |-> level])
                         [] fall /\ Len(b.pulses) = 9 -> << >>
                         [] OTHER -> b.pulses,
         wire      |-> CASE startCond -> Append(b.wire, SymS)
                         [] stopCond -> Append(b.wire, SymP)
                         [] fall /\ Len(b.pulses) = 9 -> Append(b.wire, SymB(b.pulses))
                         [] OTHER -> b.wire]

\* the bus variables take the values of a bus state
SetBus(b) ==
    /\ ddrSDA' = b.ddrSDA /\ ddrSCL' = b.ddrSCL /\ slavePull' = b.slavePull
    /\ busOps' = b.busOps /\ lineOps' = b.lineOps /\ clocks' = b.clocks
    /\ data' = b.data /\ samples' = b.samples /\ pulses' = b.pulses
    /\ wire' = b.wire

\* the running I2C function executes its next line operation
BusStep ==
    /\ busOps # << >>
    /\ SetBus(LineOp(BusState, slaveMode, busCall.fn = "I2C_read", slaveByte))
    /\ UNCHANGED << busCall, busQueue, rets, slaveMode, slaveData, slaveByte, NonBusVars >>

\* the driver makes its next I2C call
BusCall ==
    /\ busCall = NoBusCall /\ busOps = << >> /\ busQueue # << >>
    /\ busCall' = Head(busQueue)
    /\ busQueue' = Tail(busQueue)
    /\ busOps' = CallOps(Head(busQueue))
    /\ lineOps' = 0 /\ clocks' = 0 /\ data' = 0 /\ samples' = << >>
    /\ IF Head(busQueue).fn = "I2C_read" /\ slaveData # << >>
       THEN slaveByte' = Head(slaveData) /\ slaveData' = Tail(slaveData)
       ELSE UNCHANGED << slaveByte, slaveData >>
    /\ UNCHANGED << ddrSDA, ddrSCL, rets, pulses, wire, slaveMode, slavePull, NonBusVars >>

\* the I2C function returns (I2C_read: return data)
BusReturn ==
    /\ busCall # NoBusCall /\ busOps = << >>
    /\ rets' = IF busCall.fn = "I2C_read" THEN Append(rets, data) ELSE rets
    /\ busCall' = NoBusCall
    /\ UNCHANGED << ddrSDA, ddrSCL, busOps, busQueue, lineOps, clocks, data, samples,
                    pulses, wire, slaveMode, slaveData, slaveByte, slavePull, NonBusVars >>

\* addresses on the bus: INA219 write and read, SSD1306
I2CAddrs == {128, 129, 120}

I2CCalls ==
    {[fn |-> "I2C_write", arg |-> b] : b \in 0..255}
    \cup {[fn |-> f, arg |-> a] : f \in {"I2C_start", "I2C_restart"}, a \in I2CAddrs}
    \cup {[fn |-> "I2C_read", arg |-> a] : a \in {0, 1, 255}}
    \cup {[fn |-> "I2C_stop", arg |-> 0]}

\* The lines when the function is entered: I2C_start finds the bus idle,
\* the others follow a function that left the clock low; I2C_read may
\* follow an I2C_read that acknowledged (SDA still driven low).
InitI2C ==
    /\ MainInit /\ NoCall /\ MilIdle /\ ProgIdle /\ SketchIdle
    /\ slaveMode \in SlaveModes
    /\ \E c \in I2CCalls :
          /\ busQueue = << c >>
          /\ ddrSCL = IF c.fn = "I2C_start" THEN 0 ELSE 1
          /\ ddrSDA \in IF c.fn = "I2C_read" THEN {0, 1} ELSE {0}
          /\ slaveData \in IF c.fn = "I2C_read" /\ slaveMode = "device"
                           THEN {<< b >> : b \in 0..255} ELSE {<< >>}
    /\ busCall = NoBusCall /\ busOps = << >>
    /\ lineOps = 0 /\ clocks = 0 /\ data = 0 /\ samples = << >>
    /\ rets = << >> /\ pulses = << >> /\ wire = << >>
    /\ slaveByte = 255
    /\ slavePull = IF slaveMode = "stuck" THEN 1 ELSE 0

NextI2C == BusCall \/ BusStep \/ BusReturn

SpecI2C == InitI2C /\ [][NextI2C]_vars

-----------------------------------------------------------------------------
(* SpecDay: the device after DayIters iterations of 100 ms (more than 18   *)
(* hours) with a steady load of 5000 mV and 3600 mA, the button never      *)
(* pressed so far; then the button is used to walk through the screens.    *)

DayIters == 700000
MaxDaySteps == 8

DayInit ==
    LET n   == FromNat(DayIters)
        v   == INA_readVoltage(10003)
        c   == INA_readCurrent(3600)
        p   == CalcPower(v, c)
        iv  == FromNat(100)
        dur == Mul32(n, 100)
        cap == Mul32(n, Accumulate(Zero32, iv, c).lo)
        en  == Mul32(n, Accumulate(Zero32, iv, p).lo)
    IN  /\ voltage = v /\ current = c /\ power = p
        /\ minvoltage = v /\ maxvoltage = v
        /\ mincurrent = c /\ maxcurrent = c
        /\ minpower = p /\ maxpower = p
        /\ MIL_counter = dur
        /\ lastmillis = dur
        /\ interval = iv
        /\ duration = dur
        /\ seconds = Div32(dur, 1000).lo
        /\ capacity = cap
        /\ energy = en
        /\ primescreen = 0
        /\ lastbutton = 0
        /\ iter = DayIters /\ pinSet = 1 /\ presses = 0 /\ heldPolls = 0
        /\ rendered = Screen(0, [voltage |-> v, current |-> c, power |-> p,
                                 minvoltage |-> v, maxvoltage |-> v,
                                 mincurrent |-> c, maxcurrent |-> c,
                                 minpower |-> p, maxpower |-> p,
                                 capacity |-> cap, energy |-> en,
                                 seconds |-> Div32(dur, 1000).lo])
        /\ NoCall /\ MilIdle /\ BusIdle /\ ProgIdle /\ SketchIdle

IterateDay ==
    /\ iter < DayIters + MaxDaySteps
    /\ \E ticks \in Intervals, pin \in {0, 1} : Loop(10003, 3600, ticks, pin)

NextDay == IterateDay

SpecDay == DayInit /\ [][NextDay]_vars

-----------------------------------------------------------------------------
(* SpecWrap: the device after WrapIters iterations of 100 ms (49.7 days)   *)
(* with a steady load of 5000 mV and 3600 mA, the button never pressed:    *)
(* the millis counter is 96 ticks below 2^32 and wraps in the next         *)
(* iterations.                                                             *)

WrapIters == 42949672
MaxWrapSteps == 4

\* the sketch after the same WrapIters iterations: its last iteration applied
\* to the globals the iterations before it left
WrapSketch ==
    LET n   == FromNat(WrapIters - 1)
        one == loop(setup(Zero32), 10003, 3600, FromNat(100), 1)
        ms  == Mul32(n, 100)
    IN  loop([one EXCEPT !.lastmillis = ms, !.nowmillis = ms,
                         !.duration = ms, !.seconds = Div32(ms, 1000),
                         !.capacity = Mul32(n, one.capacity.lo),
                         !.energy = Mul32(n, one.energy.lo)],
             10003, 3600, Mul32(FromNat(WrapIters), 100), 1)

WrapInit ==
    LET n   == FromNat(WrapIters)
        v   == INA_readVoltage(10003)
        c   == INA_readCurrent(3600)
        p   == CalcPower(v, c)
        iv  == FromNat(100)
        dur == Mul32(n, 100)
        cap == Mul32(n, Accumulate(Zero32, iv, c).lo)
        en  == Mul32(n, Accumulate(Zero32, iv, p).lo)
    IN  /\ voltage = v /\ current = c /\ power = p
        /\ minvoltage = v /\ maxvoltage = v
        /\ mincurrent = c /\ maxcurrent = c
        /\ minpower = p /\ maxpower = p
        /\ MIL_counter = dur
        /\ lastmillis = dur
        /\ interval = iv
        /\ duration = dur
        /\ seconds = Div32(dur, 1000).lo
        /\ capacity = cap
        /\ energy = en
        /\ primescreen = 0
        /\ lastbutton = 0
        /\ iter = WrapIters /\ pinSet = 1 /\ presses = 0 /\ heldPolls = 0
        /\ rendered = Screen(0, [voltage |-> v, current |-> c, power |-> p,
                                 minvoltage |-> v, maxvoltage |-> v,
                                 mincurrent |-> c, maxcurrent |-> c,
                                 minpower |-> p, maxpower |-> p,
                                 capacity |-> cap, energy |-> en,
                                 seconds |-> Div32(dur, 1000).lo])
        /\ NoCall /\ MilIdle /\ BusIdle /\ ProgIdle /\ sketch = WrapSketch

IterateWrap ==
    /\ iter < WrapIters + MaxWrapSteps
    /\ \E ticks \in Intervals, pin \in {0, 1} : Loop(10003, 3600, ticks, pin)

NextWrap == IterateWrap

SpecWrap == WrapInit /\ [][NextWrap]_vars

-----------------------------------------------------------------------------
(* SpecBackends: the firmware and the library-backed sketch side by side,  *)
(* each iteration of the two loops fed the same register contents, the     *)
(* same millisecond reading and the same button level; started after       *)
(* setup, and after WrapIters iterations just below the wrap of the        *)
(* millisecond counter.                                                    *)

MaxBackendIter == 3
MaxWrapBackendIter == 2

InitBackends == Init \/ WrapInit

\* one iteration of both loops; the millisecond reading is the one MIL_read
\* returns to the firmware
BackendsLoop(regV, regC, ticks, pin) ==
    /\ LoopBody(regV, regC, ticks, pin)
    /\ sketch' = loop(sketch, regV, regC, MIL_read(TIM0_COMPA(MIL_counter, ticks)), pin)
    /\ UNCHANGED << callee, arg, ret, plotted, MilVars, BusVars,
                    progPc, todo, drv, txnLog, results, evalOrder >>

IterateBackends ==
    /\ \/ iter < MaxBackendIter
       \/ iter >= WrapIters /\ iter < WrapIters + MaxWrapBackendIter
    /\ \E regV \in RawVoltages, regC \in RawCurrents, ticks \in Intervals, pin \in {0, 1} :
           BackendsLoop(regV, regC, ticks, pin)

NextBackends == IterateBackends

SpecBackends == InitBackends /\ [][NextBackends]_vars

-----------------------------------------------------------------------------
(* The INA219 and OLED functions as the I2C calls they make, in order *)

INA_ADDR == 128
INA_CONFIG == 2047
INA_CALIB == 5120
INA_REG_CONFIG == 0
INA_REG_CALIB == 5
INA_REG_VOLTAGE == 2
INA_REG_CURRENT == 4

Call(f, a) == [fn |-> f, arg |-> a]

\* a | b on bytes
BitOr(a, b) == a + b - BitAnd(a, b)

\* INA_write sending the low byte of the value first
INA_write_lowFirst(reg, value) ==
    << Call("I2C_start", INA_ADDR), Call("I2C_write", reg),
       Call("I2C_write", value % UINT8_MOD), Call("I2C_write", value \div 256),
       Call("I2C_stop", 0) >>

\* INA_write(uint8_t reg, uint16_t value)
INA_write(reg, value) ==
    << Call("I2C_start", INA_ADDR), Call("I2C_write", reg),
       Call("I2C_write", value \div 256), Call("I2C_write", value % UINT8_MOD),
       Call("I2C_stop", 0) >>

\* INA_read(uint8_t reg): the two I2C_read calls are operands of one |
\* expression, the build decides which one is called first
INA_read(reg, order) ==
    << Call("I2C_start", INA_ADDR), Call("I2C_write", reg),
       Call("I2C_restart", BitOr(INA_ADDR, 1)) >>
    \o (IF order = "left"
        THEN << Call("I2C_read", 1), Call("I2C_read", 0) >>
        ELSE << Call("I2C_read", 0), Call("I2C_read", 1) >>)
    \o << Call("I2C_stop", 0) >>

\* result = (uint16_t)(I2C_read(1) << 8) | I2C_read(0), given the bytes
\* the calls returned in the order they were made
INA_readResult(r, order) ==
    IF order = "left" THEN r[1] * 256 + r[2] ELSE r[2] * 256 + r[1]

\* INA_init()
INA_init ==
    << DisplayCall("INA_write", << INA_REG_CONFIG, INA_CONFIG >>),
       DisplayCall("INA_write", << INA_REG_CALIB, INA_CALIB >>) >>

\* I2C_write for each byte of a sequence
WriteAll(bytes) == [k \in 1..Len(bytes) |-> Call("I2C_write", bytes[k])]

\* OLED_init announcing its bytes as data
OLED_init_dataMode ==
    << Call("I2C_start", OLED_ADDR), Call("I2C_write", OLED_DAT_MODE) >>
    \o WriteAll(OLED_INIT_CMD) \o << Call("I2C_stop", 0) >>

\* OLED_init()
OLED_init ==
    << Call("I2C_start", OLED_ADDR), Call("I2C_write", OLED_CMD_MODE) >>
    \o WriteAll(OLED_INIT_CMD) \o << Call("I2C_stop", 0) >>

\* OLED_setCursor sending the high nibble of the column before the low one
OLED_setCursor_highFirst(xpos, ypos) ==
    << Call("I2C_start", OLED_ADDR), Call("I2C_write", OLED_CMD_MODE),
       Call("I2C_write", 34),
       Call("I2C_write", ypos), Call("I2C_write", (ypos + 1) % UINT8_MOD),
       Call("I2C_write", BitOr(16, xpos \div 16)),
       Call("I2C_write", BitAnd(xpos, 15)),
       Call("I2C_write", BitOr(176, ypos)),
       Call("I2C_stop", 0) >>

\* OLED_setCursor(uint8_t xpos, uint8_t ypos)
OLED_setCursor(xpos, ypos) ==
    << Call("I2C_start", OLED_ADDR), Call("I2C_write", OLED_CMD_MODE),
       Call("I2C_write", 34),
       Call("I2C_write", ypos), Call("I2C_write", (ypos + 1) % UINT8_MOD),
       Call("I2C_write", BitAnd(xpos, 15)),
       Call("I2C_write", BitOr(16, xpos \div 16)),
       Call("I2C_write", BitOr(176, ypos)),
       Call("I2C_stop", 0) >>

\* a loop that counts i from 255 down instead of from 0
ClearPasses_from255 == UINT8_MOD - 1

\* uint8_t i = 0; do {...} while(--i): the number of passes, i.e. the
\* first n >= 1 at which the uint8_t i, decremented n times from 0, is 0
ClearPasses ==
    CHOOSE n \in 1..UINT8_MOD :
        /\ (UINT8_MOD - n) % UINT8_MOD = 0
        /\ \A m \in 1..(n - 1) : (UINT8_MOD - m) % UINT8_MOD # 0

\* do {I2C_write(0x00);} while(--i);
ClearLoop == [k \in 1..ClearPasses |-> Call("I2C_write", 0)]

\* OLED_clearScreen()
OLED_clearScreen ==
    OLED_setCursor(0, 0)
    \o << Call("I2C_start", OLED_ADDR), Call("I2C_write", OLED_DAT_MODE) >>
    \o ClearLoop \o << Call("I2C_stop", 0) >>
    \o OLED_setCursor(0, 2)
    \o << Call("I2C_start", OLED_ADDR), Call("I2C_write", OLED_DAT_MODE) >>
    \o ClearLoop \o << Call("I2C_stop", 0) >>

\* OLED_plotChar taking the glyph from offset 8 * ch
OLED_plotChar_stride8(ch) ==
    LET pos == (ch * 8) % UINT8_MOD
    IN  << 0, 0 >>
        \o [k \in 1..12 |-> OLED_FONT[((pos + k - 1) % UINT8_MOD) + 1]]
        \o << 0, 0 >>

\* OLED_plotChar(uint8_t ch): the bytes written
OLED_plotChar(ch) ==
    LET pos == (ch * 8 + ch * 4) % UINT8_MOD
    IN  << 0, 0 >>
        \o [k \in 1..12 |-> OLED_FONT[((pos + k - 1) % UINT8_MOD) + 1]]
        \o << 0, 0 >>

\* the printing functions (OLED_printChar, OLED_printPrg, OLED_printDec16,
\* OLED_printDec12, OLED_printDec8): one data transaction that plots the
\* characters
OLED_print(glyphs) ==
    LET RECURSIVE Go(_, _)
        Go(k, out) == IF k > Len(glyphs) THEN out
                      ELSE Go(k + 1, out \o WriteAll(OLED_plotChar(glyphs[k])))
    IN  << Call("I2C_start", OLED_ADDR), Call("I2C_write", OLED_DAT_MODE) >>
        \o Go(1, << >>) \o << Call("I2C_stop", 0) >>

\* the I2C calls of a driver function
DriverCalls(d, order) ==
    CASE d.fn = "INA_write" -> INA_write(d.args[1], d.args[2])
      [] d.fn = "INA_read" -> INA_read(d.args[1], order)
      [] d.fn = "OLED_init" -> OLED_init
      [] d.fn = "OLED_clearScreen" -> OLED_clearScreen
      [] d.fn = "OLED_setCursor" -> OLED_setCursor(d.args[1], d.args[2])
      [] OTHER -> OLED_print(d.args)

-----------------------------------------------------------------------------
(* SpecBus: main() from reset with every driver call executed on the bus,  *)
(* one I2C function per step: setup, then iterations of the loop (sensor   *)
(* reads, calculations, display).  The other end of the bus responds, is   *)
(* absent or holds SDA low.  The processor never stops.                    *)

MaxBusIter == 2

\* register contents a responding INA219 returns
BusRegisters(reg) == IF reg = INA_REG_VOLTAGE THEN {10003} ELSE {1000}

\* setup: INA_init(); OLED_init(); OLED_clearScreen();
SetupCalls ==
    INA_init \o << DisplayCall("OLED_init", << >>), DisplayCall("OLED_clearScreen", << >>) >>

\* voltage = INA_readVoltage(); current = INA_readCurrent();
ReadCalls ==
    << DisplayCall("INA_read", << INA_REG_VOLTAGE >>),
       DisplayCall("INA_read", << INA_REG_CURRENT >>) >>

\* an I2C function run to its end, or for as long as the model follows it
RECURSIVE RunOps(_, _, _, _)
RunOps(b0, mode, reading, byte) ==
    CHOOSE r \in { IF b.busOps = << >> \/ b.lineOps >= MaxLineOps THEN b
                   ELSE RunOps(LineOp(b, mode, reading, byte), mode, reading, byte)
                   : b \in {b0} } : TRUE

\* the bytes a responding slave sends in this specification
BusBytes ==
    {255} \cup UNION { {r \div 256, r % 256} :
                       r \in BusRegisters(INA_REG_VOLTAGE) \cup BusRegisters(INA_REG_CURRENT) }

\* an I2C call as the lines and the other end stand when it is made
ExecKeys ==
    { [c |-> c, sda |-> s, scl |-> l, pull |-> p, mode |-> m, byte |-> b] :
        c \in I2CCalls, s \in {0, 1}, l \in {0, 1}, p \in {0, 1}, m \in SlaveModes,
        b \in BusBytes }

\* the bus state in which the I2C function starts
ExecEntry(k) ==
    [ddrSDA |-> k.sda, ddrSCL |-> k.scl, slavePull |-> k.pull,
     busOps |-> CallOps(k.c), lineOps |-> 0, clocks |-> 0, data |-> 0,
     samples |-> << >>, pulses |-> << >>, wire |-> << >>]

\* every I2C call run line operation by line operation, computed once
ExecTable ==
    [k \in { x \in ExecKeys : x.c.fn = "I2C_read" \/ x.byte = 255 } |->
        RunOps(ExecEntry(k), k.mode, k.c.fn = "I2C_read", k.byte)] @@ << >>

\* the driver makes its next I2C call and the function executes all its
\* line operations
BusExec ==
    /\ busCall = NoBusCall /\ busOps = << >> /\ busQueue # << >>
    /\ LET c    == Head(busQueue)
           take == c.fn = "I2C_read" /\ slaveData # << >>
           byte == IF take THEN Head(slaveData) ELSE slaveByte
           key  == [c |-> c, sda |-> ddrSDA, scl |-> ddrSCL, pull |-> slavePull,
                    mode |-> slaveMode,
                    byte |-> IF c.fn = "I2C_read" THEN byte ELSE 255]
           b    == IF pulses = << >> /\ key \in DOMAIN ExecTable
                   THEN ExecTable[key]
                   ELSE RunOps([ExecEntry(key) EXCEPT !.pulses = pulses],
                               slaveMode, c.fn = "I2C_read", byte)
       IN  /\ busCall' = c
           /\ busQueue' = Tail(busQueue)
           /\ slaveByte' = byte
           /\ slaveData' = IF take THEN Tail(slaveData) ELSE slaveData
           /\ SetBus([b EXCEPT !.wire = wire \o b.wire])
    /\ UNCHANGED << rets, slaveMode, NonBusVars >>

InitBus ==
    /\ MainInit /\ NoCall /\ MilIdle /\ SketchIdle
    /\ ddrSDA = 0 /\ ddrSCL = 0
    /\ busCall = NoBusCall /\ busOps = << >> /\ busQueue = << >>
    /\ lineOps = 0 /\ clocks = 0 /\ data = 0 /\ samples = << >>
    /\ rets = << >> /\ pulses = << >> /\ wire = << >>
    /\ slaveMode \in SlaveModes
    /\ slaveData = << >> /\ slaveByte = 255
    /\ slavePull = IF slaveMode = "stuck" THEN 1 ELSE 0
    /\ progPc = "setup" /\ todo = SetupCalls /\ drv = NoDriver
    /\ txnLog = << >> /\ results = << >>
    /\ evalOrder \in {"left", "right"}

BusQuiet == busCall = NoBusCall /\ busOps = << >> /\ busQueue = << >>

\* main() calls the next driver function
DriverCall ==
    /\ BusQuiet /\ drv = NoDriver /\ todo # << >>
    /\ drv' = Head(todo)
    /\ todo' = Tail(todo)
    /\ busQueue' = DriverCalls(Head(todo), evalOrder)
    /\ wire' = << >>
    /\ rets' = << >>
    /\ IF Head(todo).fn = "INA_read" /\ slaveMode = "device"
       THEN \E r \in BusRegisters(Head(todo).args[1]) :
               slaveData' = << r \div 256, r % 256 >>
       ELSE slaveData' = << >>
    /\ UNCHANGED << ddrSDA, ddrSCL, busCall, busOps, lineOps, clocks, data, samples,
                    pulses, slaveMode, slaveByte, slavePull,
                    progPc, txnLog, results, evalOrder, sketch,
                    MainVars, callee, arg, ret, plotted, MilVars >>

\* the driver function returns
DriverReturn ==
    /\ BusQuiet /\ drv # NoDriver
    /\ drv' = NoDriver
    /\ txnLog' = IF drv.fn \in {"INA_write", "INA_read"} THEN Append(txnLog, wire) ELSE txnLog
    /\ results' = IF drv.fn = "INA_read"
                  THEN Append(results, INA_readResult(rets, evalOrder))
                  ELSE results
    /\ UNCHANGED << BusVars, progPc, todo, evalOrder, sketch,
                    MainVars, callee, arg, ret, plotted, MilVars >>

\* lastmillis = MIL_read(); while(1) {
SetupDone ==
    /\ progPc = "setup" /\ BusQuiet /\ drv = NoDriver /\ todo = << >>
    /\ progPc' = "read"
    /\ todo' = ReadCalls
    /\ UNCHANGED << BusVars, drv, txnLog, results, evalOrder, sketch,
                    MainVars, callee, arg, ret, plotted, MilVars >>

\* the calculations of the iteration; the display calls follow
BusLoop ==
    /\ progPc = "read" /\ BusQuiet /\ drv = NoDriver /\ todo = << >>
    /\ \E ticks \in {100}, pin \in {0, 1} :
          LoopBody(results[1], results[2], ticks, pin)
    /\ progPc' = "render"
    /\ todo' = rendered'
    /\ results' = << >>
    /\ UNCHANGED << BusVars, drv, txnLog, evalOrder, sketch, callee, arg, ret, plotted, MilVars >>

\* _delay_ms(50); }
Delay ==
    /\ progPc = "render" /\ BusQuiet /\ drv = NoDriver /\ todo = << >>
    /\ iter < MaxBusIter
    /\ progPc' = "read"
    /\ todo' = ReadCalls
    /\ UNCHANGED << BusVars, drv, txnLog, results, evalOrder, sketch,
                    MainVars, callee, arg, ret, plotted, MilVars >>

NextBus ==
    \/ BusExec \/ BusReturn
    \/ DriverCall \/ DriverReturn
    \/ SetupDone \/ BusLoop \/ Delay

SpecBus == InitBus /\ [][NextBus]_vars /\ WF_vars(NextBus)

-----------------------------------------------------------------------------
(* SpecScreens: main() from reset against a responding bus, the SET button *)
(* released, pressed and held in turn until all five screens have been     *)
(* shown and the first one is shown again.                                 *)

MaxScreenIter == 15

\* the level of PIN_SET in the iteration after i iterations: released,
\* pressed, still pressed
ButtonPattern(i) == IF i % 3 = 0 THEN 1 ELSE 0

InitScreens == InitBus /\ slaveMode = "device" /\ evalOrder = "left"

\* the calculations and the button check of the iteration; the display
\* calls follow
ScreenLoop ==
    /\ progPc = "read" /\ BusQuiet /\ drv = NoDriver /\ todo = << >>
    /\ \E ticks \in {100}, pin \in {ButtonPattern(iter)} :
          LoopBody(results[1], results[2], ticks, pin)
    /\ progPc' = "render"
    /\ todo' = rendered'
    /\ results' = << >>
    /\ UNCHANGED << BusVars, drv, txnLog, evalOrder, sketch, callee, arg, ret, plotted, MilVars >>

\* _delay_ms(50); }
ScreenDelay ==
    /\ progPc = "render" /\ BusQuiet /\ drv = NoDriver /\ todo = << >>
    /\ iter < MaxScreenIter
    /\ progPc' = "read"
    /\ todo' = ReadCalls
    /\ UNCHANGED << BusVars, drv, txnLog, results, evalOrder, sketch,
                    MainVars, callee, arg, ret, plotted, MilVars >>

NextScreens ==
    \/ BusExec \/ BusReturn
    \/ DriverCall \/ DriverReturn
    \/ SetupDone \/ ScreenLoop \/ ScreenDelay

SpecScreens == InitScreens /\ [][NextScreens]_vars

-----------------------------------------------------------------------------
(* Claims about the decoders and the printers *)

\* C5: INA_readCurrent returns 0 for a register content above 32767 and the
\* content itself otherwise (0x8000 -> 0, 0x1388 -> 5000); the result is
\* in 0..32767.
C5_CurrentDecode ==
    callee = "INA_readCurrent" =>
        /\ arg > 32767 => ret = 0
        /\ arg <= 32767 => ret = arg
        /\ ret \in 0..32767
        /\ arg = 32768 => ret = 0
        /\ arg = 5000 => ret = 5000

\* C5 witness: the register content 0x8000 was decoded to 0
C5_Witness == callee = "INA_readCurrent" /\ arg = 32768 /\ ret = 0

\* C6: INA_readVoltage returns 4 * (r div 8): a multiple of 4 that does not
\* depend on the three low bits of r (0x0064 -> 48, 0b11111100 -> 124).
C6_VoltageDecode ==
    callee = "INA_readVoltage" =>
        /\ ret = 4 * (arg \div 8)
        /\ ret % 4 = 0
        /\ \A low \in 0..7 : INA_readVoltage(8 * (arg \div 8) + low) = ret
        /\ arg = 100 => ret = 48
        /\ arg = 252 => ret = 124

\* C6 witness: a register content with all three low bits set was decoded
C6_Witness == callee = "INA_readVoltage" /\ arg = 10007 /\ ret = 5000

\* the five glyphs read as a decimal number, a space counting as 0
Reading(glyphs) ==
    LET RECURSIVE Go(_, _)
        Go(i, acc) == IF i > Len(glyphs) THEN acc
                      ELSE Go(i + 1, 10 * acc + (IF glyphs[i] = SPACE THEN 0 ELSE glyphs[i]))
    IN  Go(1, 0)

\* five glyphs: spaces, then digits, the last one a digit
SpacesThenDigits(glyphs) ==
    /\ Len(glyphs) = 5
    /\ \A i \in 1..5 : glyphs[i] \in 0..9 \cup {SPACE}
    /\ glyphs[5] \in 0..9
    /\ \A i \in 1..4 : glyphs[i + 1] = SPACE => glyphs[i] = SPACE

\* C9 as stated: for every v in 0..99999 OLED_printDec16(v) emits five
\* glyphs, spaces then digits, that read v.
C9_Dec16RoundTrip99999 ==
    (callee = "OLED_printDec16" /\ arg <= 99999) =>
        /\ SpacesThenDigits(plotted)
        /\ Reading(plotted) = arg

\* C9 amended: for every v in 0..65535 OLED_printDec16(v) emits five
\* glyphs, spaces then digits, that read v.
C9_Dec16RoundTrip ==
    (callee = "OLED_printDec16" /\ arg <= 65535) =>
        /\ SpacesThenDigits(plotted)
        /\ Reading(plotted) = arg

\* C9 witness: a value with a leading space and an inner zero
C9_Witness ==
    callee = "OLED_printDec16" /\ arg = 5040 /\ plotted = << SPACE, 5, 0, 4, 0 >>

\* C10: for every v in 0..999 OLED_printDec12(v) emits three digit glyphs
\* d2 d1 d0, each in 0..9, with 100 * d2 + 10 * d1 + d0 = v.
C10_Dec12RoundTrip ==
    (callee = "OLED_printDec12" /\ arg <= 999) =>
        /\ Len(plotted) = 3
        /\ \A i \in 1..3 : plotted[i] \in 0..9
        /\ 100 * plotted[1] + 10 * plotted[2] + plotted[3] = arg

\* C10 witness: a value below 100 is printed with leading zeros
C10_Witness ==
    callee = "OLED_printDec12" /\ arg = 7 /\ plotted = << 0, 0, 7 >>

-----------------------------------------------------------------------------
(* Claims about the millis counter *)

\* C11: the value MIL_read returns is a value the counter held at one
\* instant between the call and the return, never a mix of bytes of two
\* counter values.
C11_AtomicSnapshot ==
    milPc = "ret" => FromBytes(milResult) \in milSeen

\* C11 witness: a read returned 255, one below a carry into the second
\* byte, while a compare match that arrived during the read was pending
C11_Witness ==
    /\ milPc = "ret" /\ FromBytes(milResult) = U32(0, 255)
    /\ OCF0A = 1 /\ SREG_I = 1

-----------------------------------------------------------------------------
(* Claims about the reset state and the extrema *)

\* the stored minima only fall and the stored maxima only rise
ExtremaWiden ==
    /\ minvoltage' <= minvoltage /\ maxvoltage' >= maxvoltage
    /\ mincurrent' <= mincurrent /\ maxcurrent' >= maxcurrent
    /\ minpower' <= minpower /\ maxpower' >= maxpower

\* C12: at program start duration, capacity and energy are 0, every
\* (minimum, maximum) pair is (65535, 0) and the screen index is 0; after
\* that no step of the main loop raises a minimum or lowers a maximum.
C12_ResetSemantics ==
    /\ duration = Zero32 /\ capacity = Zero32 /\ energy = Zero32
    /\ minvoltage = UINT16_MAX /\ maxvoltage = 0
    /\ mincurrent = UINT16_MAX /\ maxcurrent = 0
    /\ minpower = UINT16_MAX /\ maxpower = 0
    /\ primescreen = 0
    /\ [][ExtremaWiden]_vars

\* C12 witness: after several iterations the reading lies strictly inside
\* the stored voltage and current ranges, which kept their earlier bounds
C12_Witness ==
    /\ iter >= 3
    /\ minvoltage < voltage /\ voltage < maxvoltage
    /\ mincurrent < current /\ current < maxcurrent

-----------------------------------------------------------------------------
(* Claims about the I2C functions *)

\* the master is inside I2C_write, called directly or from I2C_start
InWrite ==
    \/ busCall.fn = "I2C_write"
    \/ busCall.fn = "I2C_start" /\ lineOps >= 2
    \/ busCall.fn = "I2C_restart" /\ lineOps >= 4

\* C19: I2C_write(b) gives exactly nine clock pulses; the first eight carry
\* bits 7..0 of b (released for 1, low for 0), so a receiver sampling at the
\* clock rise gets b; SDA changes only while the clock is low; during the
\* ninth pulse SDA is released and never read, so the function ends in the
\* same state whether or not the byte is acknowledged.
C19_WriteNineClocks ==
    /\ [](busCall.fn = "I2C_write" /\ busOps = << >> =>
            /\ clocks = 9 /\ lineOps = 27
            /\ wire # << >>
            /\ wire[Len(wire)].sym = "B"
            /\ wire[Len(wire)].sent = busCall.arg
            /\ slaveMode # "stuck" => wire[Len(wire)].seen = busCall.arg
            /\ wire[Len(wire)].sentAck = 0
            /\ samples = << >>
            /\ ddrSDA = 0 /\ ddrSCL = 1)
    /\ [][InWrite /\ ddrSDA' # ddrSDA => ddrSCL = 1 /\ ddrSCL' = 1]_vars

\* C19 witness: 0xA5 was written and nobody acknowledged it
C19_Witness ==
    /\ busCall = [fn |-> "I2C_write", arg |-> 165] /\ busOps = << >>
    /\ wire[Len(wire)].seen = 165 /\ wire[Len(wire)].seenAck = 0

\* C20: I2C_read(ack) releases SDA, samples it once in each of the eight
\* clock-high phases and returns the sampled levels, first sample in bit 7;
\* during the ninth pulse it drives SDA low exactly when ack is non-zero.
C20_ReadSamples ==
    busCall.fn = "I2C_read" /\ busOps = << >> =>
        /\ Len(samples) = 8
        /\ \A k \in 1..8 : samples[k].pulse = k /\ samples[k].high
        /\ data = BitsValue([k \in 1..8 |-> samples[k].lvl])
        /\ clocks = 9
        /\ wire[Len(wire)].sent = 255
        /\ wire[Len(wire)].seen = data
        /\ wire[Len(wire)].sentAck = (IF busCall.arg # 0 THEN 1 ELSE 0)
        /\ slaveMode = "device" => data = slaveByte

\* C20 witness: the slave sent 0x5A and the master acknowledged it
C20_Witness ==
    /\ busCall = [fn |-> "I2C_read", arg |-> 255] /\ busOps = << >>
    /\ data = 90 /\ wire[Len(wire)].sentAck = 1

-----------------------------------------------------------------------------
(* Claims about the screens *)

\* the printing calls of the last iteration, without the clearing
Printed == SelectSeq(rendered, LAMBDA d : d.fn # "OLED_clearScreen")

\* two digit glyphs reading n
TwoDigits(g, n) == g = << n \div 10, n % 10 >>

\* three digit glyphs reading n
ThreeDigits(g, n) == g = << n \div 100, (n \div 10) % 10, n % 10 >>

\* a row of the totals screen shows the accumulator as thousands, point,
\* three-digit fraction
TotalShown(whole, point, fraction, total) ==
    /\ whole.fn = "OLED_printDec16"
    /\ SpacesThenDigits(whole.args)
    /\ Reading(whole.args) = ToNat(Div32(total, 1000))
    /\ point = DisplayCall("OLED_printChar", << DECIMAL >>)
    /\ fraction.fn = "OLED_printDec12"
    /\ ThreeDigits(fraction.args, Mod32(total, 1000))

\* C16: the duration screen shows HH = s div 3600, MM = (s mod 3600) div 60
\* and SS = s mod 60, two digits each, s being the whole seconds of the
\* measured duration, for every reachable duration.
C16_DurationScreen ==
    primescreen = 4 /\ iter > DayIters =>
        LET s == ToNat(Div32(duration, 1000))
        IN  /\ Len(Printed) = 6
            /\ Printed[2].fn = "OLED_printDec8"
            /\ TwoDigits(Printed[2].args, s \div 3600)
            /\ Printed[3] = DisplayCall("OLED_printChar", << COLON >>)
            /\ TwoDigits(Printed[4].args, (s % 3600) \div 60)
            /\ Printed[5] = DisplayCall("OLED_printChar", << COLON >>)
            /\ TwoDigits(Printed[6].args, s % 60)

\* C17: the totals screen shows in row 0 capacity div 1000 as five
\* space-filled digits, the decimal point and capacity mod 1000 as three
\* zero-filled digits, and in row 1 the same for energy, for every
\* reachable value of the accumulators.
C17_TotalsScreen ==
    primescreen = 3 /\ iter > DayIters =>
        /\ Len(Printed) = 10
        /\ TotalShown(Printed[2], Printed[3], Printed[4], capacity)
        /\ TotalShown(Printed[7], Printed[8], Printed[9], energy)

-----------------------------------------------------------------------------
(* Claims about the bus traffic of main() *)

\* a driver function has made all its I2C calls and is about to return
DriverDone(f) == drv.fn = f /\ BusQuiet

\* the byte the master sent in entry e of a transaction
Sent(e, b) == e.sym = "B" /\ e.sent = b

\* the transaction writes value to register reg of the INA219
WritesReg(w, reg, value) ==
    /\ Len(w) = 6
    /\ w[1] = SymS /\ Sent(w[2], INA_ADDR) /\ Sent(w[3], reg)
    /\ Sent(w[4], value \div 256) /\ Sent(w[5], value % 256)
    /\ w[6] = SymP

\* the transaction addresses the INA219 for reading
IsRead(w) == \E i \in 2..Len(w) : w[i - 1] = SymS /\ Sent(w[i], INA_ADDR + 1)

C15_WriteSequence ==
    /\ DriverDone("INA_write") => WritesReg(wire, drv.args[1], drv.args[2])
    /\ Len(txnLog) >= 1 => WritesReg(txnLog[1], 0, INA_CONFIG)
    /\ Len(txnLog) >= 2 => WritesReg(txnLog[2], 5, 5120)
    /\ \A k \in 1..Len(txnLog) : IsRead(txnLog[k]) => k >= 3

\* C15 witness: both registers were written and acknowledged, then a
\* register was read
C15_Witness ==
    /\ Len(txnLog) >= 3 /\ IsRead(txnLog[3])
    /\ \A k \in 2..5 : txnLog[2][k].seenAck = 1

\* C18: I2C_start, called directly or from I2C_restart, finds both lines
\* released and drives SDA low before SCL (the observer sees SDA fall with
\* SCL high: a start condition, then the address); I2C_stop releases SCL
\* first and SDA second (SDA rises with SCL high: a stop condition) and
\* leaves both released, so the bus is idle between transactions.
C18_StartStop ==
    /\ busCall = NoBusCall /\ busQueue # << >> /\ Head(busQueue).fn = "I2C_start" =>
          ddrSDA = 0 /\ ddrSCL = 0
    /\ busCall.fn \in {"I2C_start", "I2C_restart"} /\ busOps = << >> =>
          /\ Len(wire) >= 2
          /\ wire[Len(wire) - 1] = SymS
          /\ Sent(wire[Len(wire)], busCall.arg)
          /\ clocks = IF busCall.fn = "I2C_start" THEN 9 ELSE 10
    /\ busCall.fn = "I2C_stop" /\ busOps = << >> =>
          /\ wire[Len(wire)] = SymP
          /\ ddrSDA = 0 /\ ddrSCL = 0
    /\ drv = NoDriver => ddrSDA = 0 /\ ddrSCL = 0

\* C18 witness: the stop of a register read has released both lines after
\* a restart inside the same transaction
C18_Witness ==
    /\ drv.fn = "INA_read" /\ busCall.fn = "I2C_stop" /\ busOps = << >>
    /\ Len(wire) = 8 /\ wire[4] = SymS /\ wire[8] = SymP

\* the number of line operations of an I2C function
FixedOps(c) ==
    CASE c.fn = "I2C_start"   -> 29
      [] c.fn = "I2C_restart" -> 31
      [] c.fn = "I2C_write"   -> 27
      [] c.fn = "I2C_stop"    -> 3
      [] c.fn = "I2C_read"    -> IF c.arg = 0 THEN 27 ELSE 28

\* the last iteration the model follows has displayed its screen
LastRendered ==
    iter = MaxBusIter /\ progPc = "render" /\ todo = << >> /\ drv = NoDriver /\ BusQuiet

\* C13: whatever the data line does (no acknowledge, wrong data, held low
\* or high), each of I2C_start, I2C_restart, I2C_stop, I2C_write and
\* I2C_read finishes after a fixed number of line operations, so every
\* iteration reaches its display step and the loop goes on.
C13_NoHang ==
    /\ [](busCall # NoBusCall => lineOps <= FixedOps(busCall))
    /\ [](busCall # NoBusCall /\ busOps = << >> => lineOps = FixedOps(busCall))
    /\ (progPc = "read") ~> (progPc = "render")
    /\ (progPc = "render") ~> (todo = << >> /\ drv = NoDriver /\ BusQuiet)
    /\ <>LastRendered

\* C13 witness: with SDA held low all the time the last iteration has
\* displayed its screen
C13_Witness == slaveMode = "stuck" /\ LastRendered

-----------------------------------------------------------------------------
(* Claims about the display traffic *)

\* the transaction sets the cursor to column x of page y: command mode,
\* page range y..y+1, low nibble and high nibble of the column, start page
CursorSent(w, x, y) ==
    /\ Len(w) = 10
    /\ w[1] = SymS /\ Sent(w[2], OLED_ADDR) /\ Sent(w[3], OLED_CMD_MODE)
    /\ Sent(w[4], 34) /\ Sent(w[5], y) /\ Sent(w[6], y + 1)
    /\ Sent(w[7], x % 16) /\ Sent(w[8], BitOr(16, x \div 16))
    /\ Sent(w[9], BitOr(176, y))
    /\ w[10] = SymP

\* the cursor positions set so far are in the columns and on the pages
\* given, and were sent in the order of CursorSent
CursorsWithin(columns, pages) ==
    /\ DriverDone("OLED_setCursor") =>
          /\ drv.args[1] \in columns /\ drv.args[2] \in pages
          /\ CursorSent(wire, drv.args[1], drv.args[2])
    /\ DriverDone("OLED_clearScreen") =>
          /\ Len(wire) >= 280
          /\ \E y \in pages : CursorSent(SubSeq(wire, 1, 10), 0, y)
          /\ \E y \in pages : CursorSent(SubSeq(wire, 271, 280), 0, y)

\* C21: every cursor position set, in initialisation and in the five
\* screens, has a column in 0..127 and a start page of 0 or 2 and is sent
\* as command mode, 0x22 with (page, page + 1), low nibble of the column,
\* 0x10 | column >> 4, 0xB0 | page.
C21_CursorPositions == CursorsWithin(0..127, {0, 2})

\* C21 as the code has it: the start page is 0, 1 or 2 (the screens with
\* one line, 2 and 4, start at page 1); columns and bytes as stated.
C21_CursorPositionsAmended == CursorsWithin(0..127, {0, 1, 2})

\* C21 witness: the duration screen has set its cursor to column 32 of
\* page 1
C21_Witness ==
    /\ DriverDone("OLED_setCursor") /\ primescreen = 4
    /\ drv.args = << 32, 1 >> /\ CursorSent(wire, 32, 1)

\* a data transaction of n zero bytes
ZeroData(w, n) ==
    /\ Len(w) = n + 4
    /\ w[1] = SymS /\ Sent(w[2], OLED_ADDR) /\ Sent(w[3], OLED_DAT_MODE)
    /\ \A k \in 4..(n + 3) : Sent(w[k], 0)
    /\ w[n + 4] = SymP

\* C22: OLED_clearScreen sets the cursor to (0,0) and writes exactly 256
\* zero data bytes, then sets the cursor to (0,2) and writes exactly 256
\* zero data bytes: 512 bytes, the display memory of 128 x 32 pixels.
C22_ClearScreen ==
    DriverDone("OLED_clearScreen") =>
        /\ Len(wire) = 540
        /\ CursorSent(SubSeq(wire, 1, 10), 0, 0)
        /\ ZeroData(SubSeq(wire, 11, 270), 256)
        /\ CursorSent(SubSeq(wire, 271, 280), 0, 2)
        /\ ZeroData(SubSeq(wire, 281, 540), 256)
        /\ 256 + 256 = (128 * 32) \div 8

\* C22 witness: the screen has been cleared after a press of the button
C22_Witness ==
    /\ DriverDone("OLED_clearScreen") /\ progPc = "render"
    /\ Len(wire) = 540 /\ wire[540] = SymP

\* the 16 bytes that show glyph g: two empty columns' worth of spacing,
\* the 12 bytes of the glyph in the font table, spacing again
GlyphBlock(g) == << 0, 0 >> \o SubSeq(OLED_FONT, 12 * g + 1, 12 * g + 12) \o << 0, 0 >>

\* the bytes are commands of the display controller: the initialisation
\* sequence or the addressing commands of a cursor position
IsCommands(p) ==
    \/ p = OLED_INIT_CMD
    \/ \E x \in 0..127, y \in 0..2 :
          p = << 34, y, y + 1, x % 16, BitOr(16, x \div 16), BitOr(176, y) >>

\* the bytes are pixel data: blocks of 16 bytes, each the picture of a glyph
\* (the space glyph is 16 zero bytes)
IsPixels(p) ==
    /\ Len(p) % 16 = 0
    /\ \A b \in 0..((Len(p) \div 16) - 1) :
          \E g \in 0..SPACE : SubSeq(p, 16 * b + 1, 16 * b + 16) = GlyphBlock(g)

\* the positions in wire at which a transaction to the display starts
DisplayStarts ==
    { i \in 1..(Len(wire) - 1) : wire[i] = SymS /\ Sent(wire[i + 1], OLED_ADDR) }

\* the transaction starting at i is framed: a mode byte, then bytes of the
\* kind the mode byte announces, up to the stop
Framed(i) ==
    \E j \in (i + 3)..Len(wire) :
        /\ wire[j] = SymP
        /\ \A k \in (i + 1)..(j - 1) : wire[k].sym = "B"
        /\ LET mode    == wire[i + 2].sent
               payload == [k \in 1..(j - i - 3) |-> wire[i + 2 + k].sent]
           IN  \/ mode = OLED_CMD_MODE /\ IsCommands(payload)
               \/ mode = OLED_DAT_MODE /\ IsPixels(payload)

\* C23: every transaction addressed to the display carries 0x00 or 0x40 as
\* the first byte after the address, and all following bytes up to the stop
\* are of that kind: commands after 0x00, pixel data after 0x40.
C23_Framing ==
    drv # NoDriver /\ BusQuiet => \A i \in DisplayStarts : Framed(i)

\* C23 witness: the clearing of setup has sent a command transaction and
\* a data transaction
C23_Witness ==
    /\ DriverDone("OLED_clearScreen") /\ progPc = "setup"
    /\ {1, 11} \subseteq DisplayStarts
    /\ Sent(wire[3], OLED_CMD_MODE) /\ Sent(wire[13], OLED_DAT_MODE)

\* the functions that plot characters
PrintFunctions ==
    {"OLED_printChar", "OLED_printPrg", "OLED_printDec16", "OLED_printDec12", "OLED_printDec8"}

\* the bytes the master sent in entries a..b of wire
SentBytes(a, b) == [k \in 1..(b - a + 1) |-> wire[a + k - 1].sent]

\* wire is one data transaction showing the glyphs, each as two padding
\* bytes, the n bytes at offset 12 * glyph of the font table, two padding
\* bytes
GlyphsShown(glyphs, n) ==
    /\ Len(wire) = 4 + (n + 4) * Len(glyphs)
    /\ wire[1] = SymS /\ Sent(wire[2], OLED_ADDR) /\ Sent(wire[3], OLED_DAT_MODE)
    /\ wire[Len(wire)] = SymP
    /\ \A k \in 1..Len(glyphs) :
          /\ \A e \in (4 + (n + 4) * (k - 1))..(3 + (n + 4) * k) : wire[e].sym = "B"
          /\ SentBytes(4 + (n + 4) * (k - 1), 3 + (n + 4) * k)
                = << 0, 0 >> \o SubSeq(OLED_FONT, 12 * glyphs[k] + 1, 12 * glyphs[k] + n)
                  \o << 0, 0 >>

\* C24: each glyph put on the display is a 12-byte pattern: 2 padding
\* bytes, 8 bytes of pixel columns, 2 padding bytes, taken from the glyph
\* table at offset glyphIndex * 12.
C24_GlyphPattern ==
    drv.fn \in PrintFunctions /\ BusQuiet => GlyphsShown(drv.args, 8)

\* C24 as the code has it: each glyph is put on the display as 16 bytes:
\* 2 padding bytes, the 12 bytes of pixel columns at offset glyphIndex * 12
\* of the glyph table, 2 padding bytes.
C24_GlyphPatternAmended ==
    drv.fn \in PrintFunctions /\ BusQuiet => GlyphsShown(drv.args, 12)

\* C24 witness: the colon of the duration screen has been sent as 16 bytes
C24_Witness ==
    /\ DriverDone("OLED_printChar") /\ drv.args = << COLON >>
    /\ Len(wire) = 20
    /\ SentBytes(4, 19) = << 0, 0, 0, 0, 0, 0, 48, 6, 48, 6, 0, 0, 0, 0, 0, 0 >>

\* the unit and separator strings of main()
Strings == {mA, mV, mW, mAh, mWh, SEP}

\* the elements of a string before its last one
Front(s) == SubSeq(s, 1, Len(s) - 1)

\* C25: each of the six strings consists of valid glyph indices followed
\* by 255; OLED_printPrg plots exactly the glyphs before the first 255, in
\* order, inside one data transaction; 255 is not a valid glyph index.
C25_Sentinel ==
    /\ \A s \in Strings :
          /\ s[Len(s)] = 255
          /\ \A k \in 1..(Len(s) - 1) : s[k] \in 0..SPACE
    /\ 255 \notin 0..SPACE
    /\ DriverDone("OLED_printPrg") =>
          /\ \E s \in Strings : drv.args = Front(s)
          /\ GlyphsShown(drv.args, 12)

\* C25 witness: the separator " - " of the extrema screen has been plotted
C25_Witness ==
    /\ DriverDone("OLED_printPrg") /\ primescreen = 1
    /\ drv.args = << SPACE, 17, SPACE >> /\ Len(wire) = 52

-----------------------------------------------------------------------------
(* Claims about the filler of the decimal printers *)

\* the five decimal digits of v, most significant first
Digits5(v) ==
    << v \div 10000, (v \div 1000) % 10, (v \div 100) % 10, (v \div 10) % 10, v % 10 >>

\* C26: OLED_printDec16 prints the space glyph in every position before the
\* first non-zero digit, digits from the first non-zero digit on, and a
\* digit in the last position in any case (0 gives four spaces and '0');
\* OLED_printDec12 and OLED_printDec8 print a digit in every position of
\* their three and two digit fields, '0' in the leading ones.
C26_FillerPolicy ==
    /\ callee = "OLED_printDec16" =>
          LET d == Digits5(arg % UINT16_MOD)
          IN  /\ Len(plotted) = 5
              /\ \A i \in 1..5 :
                    plotted[i] = IF i < 5 /\ \A j \in 1..i : d[j] = 0
                                 THEN SPACE ELSE d[i]
    /\ callee = "OLED_printDec12" /\ arg <= 999 =>
          plotted = << arg \div 100, (arg \div 10) % 10, arg % 10 >>
    /\ callee = "OLED_printDec8" /\ arg <= 99 =>
          plotted = << arg \div 10, arg % 10 >>

\* C26 witness: the value 0 printed by OLED_printDec16
C26_Witness ==
    callee = "OLED_printDec16" /\ arg = 0
    /\ plotted = << SPACE, SPACE, SPACE, SPACE, 0 >>

-----------------------------------------------------------------------------
(* Claims about the glyph indices *)

\* the glyph indices handed to OLED_plotChar in the last iteration
PlottedGlyphs ==
    UNION { { rendered[k].args[i] : i \in 1..Len(rendered[k].args) } :
            k \in { n \in 1..Len(rendered) : rendered[n].fn \in PrintFunctions } }

\* C27: every glyph index passed to OLED_plotChar (digits of the decimal
\* printers for the arguments main passes, string contents, DECIMAL, COLON,
\* SPACE) is in 0..18, so the 8-bit offset (ch << 3) + (ch << 2) is
\* 12 * index without wrapping and the twelve reads stay inside the
\* 228-byte font table.
C27_GlyphTableSafe ==
    /\ Len(OLED_FONT) = 228
    /\ \A ch \in PlottedGlyphs :
          /\ ch \in 0..SPACE
          /\ (ch * 8 + ch * 4) % UINT8_MOD = 12 * ch
          /\ 12 * ch + 11 < Len(OLED_FONT)

\* C27 witness: the totals screen after more than 18 hours has plotted
\* digits, spaces and the decimal point
C27_Witness ==
    /\ primescreen = 3 /\ iter > DayIters
    /\ {SPACE, DECIMAL} \subseteq PlottedGlyphs
    /\ \E k \in 1..Len(rendered) : rendered[k].fn = "OLED_printDec12"

-----------------------------------------------------------------------------
(* Claims about the elapsed time *)

\* C28: after every iteration duration is the latest counter reading minus
\* the reading taken at the end of setup, modulo 2^32, and each interval is
\* the number of ticks between two consecutive readings, also when the
\* 32-bit counter wraps between them.
C28_ElapsedTime ==
    /\ [](duration = Sub32(lastmillis, MIL_read(Zero32)))
    /\ [][/\ \E t \in Intervals :
                /\ MIL_counter' = TIM0_COMPA(MIL_counter, t)
                /\ interval' = FromNat(t)
          /\ lastmillis' = MIL_counter'
          /\ duration' = Add32(duration, interval')]_vars

\* C28 witness: the counter has wrapped between two readings 100 ticks
\* apart
C28_Witness ==
    /\ iter > WrapIters
    /\ lastmillis.hi = 0 /\ lastmillis.lo < 100
    /\ interval = FromNat(100)

-----------------------------------------------------------------------------
(* Claims about the interrupt flag *)

\* C29: interrupts are off from reset until the sei() of the first
\* MIL_read, so the counter is still 0 when lastmillis is initialised,
\* however long setup took; afterwards interrupts are disabled only inside
\* MIL_read, and the counter is changed only by the interrupt routine, by
\* +1 for the compare match it serves.
C29_NoTickBeforeFirstRead ==
    /\ [](progPc = "setup" /\ milPc # "ret" => SREG_I = 0 /\ MIL_counter = Zero32)
    /\ [](progPc # "setup" => lastmillis = Zero32)
    /\ [](progPc # "setup" /\ SREG_I = 0 => milPc \in {"read", "sei"})
    /\ [][MIL_counter' # MIL_counter =>
             /\ SREG_I = 1 /\ OCF0A = 1 /\ OCF0A' = 0
             /\ MIL_counter' = Add32(MIL_counter, FromNat(1))]_vars

\* C29 witness: setup took several timer periods, lastmillis was
\* initialised with 0, and the interrupt routine has counted since
C29_Witness ==
    /\ progPc = "loop" /\ lastmillis = Zero32
    /\ milTicks >= 4 /\ MIL_counter = FromNat(2)

-----------------------------------------------------------------------------
(* Claims about the clearing of the display *)

\* a is what is left of b after its first elements
IsSuffix(a, b) == \E k \in 0..Len(b) : a = SubSeq(b, k + 1, Len(b))

\* calls is the screen ps: its cursor position, its number of calls and its
\* first unit or separator
IsScreen(calls, ps) ==
    /\ calls # << >>
    /\ calls[1].fn = "OLED_setCursor"
    /\ \A k \in 1..Len(calls) : calls[k].fn # "OLED_clearScreen"
    /\ CASE ps = 0 -> Len(calls) = 10 /\ calls[1].args = << 0, 0 >> /\ calls[3].args = Front(mV)
         [] ps = 1 -> Len(calls) = 10 /\ calls[1].args = << 0, 0 >> /\ calls[3].args = Front(SEP)
         [] ps = 2 -> Len(calls) = 5 /\ calls[1].args = << 0, 1 >>
         [] ps = 3 -> Len(calls) = 10 /\ calls[1].args = << 16, 0 >>
         [] ps = 4 -> Len(calls) = 6 /\ calls[1].args = << 32, 1 >>
         [] OTHER -> FALSE

\* C30: the display is cleared once during setup and afterwards exactly in
\* the iterations in which the screen index changes, after the index is
\* updated and before the render; other iterations send no clear; the
\* screen rendered is the one the index selects after the button check.
C30_ClearOnChange ==
    /\ Cardinality({ k \in 1..Len(SetupCalls) : SetupCalls[k].fn = "OLED_clearScreen" }) = 1
    /\ [](progPc = "setup" => IsSuffix(todo, SetupCalls))
    /\ [](progPc = "render" => IsSuffix(todo, rendered))
    /\ [](drv.fn = "OLED_clearScreen" =>
             \/ progPc = "setup"
             \/ progPc = "render" /\ todo = Tail(rendered))
    /\ [][iter' # iter =>
             IF primescreen' # primescreen
             THEN /\ rendered'[1].fn = "OLED_clearScreen"
                  /\ IsScreen(Tail(rendered'), primescreen')
             ELSE IsScreen(rendered', primescreen')]_vars

\* C30 witness: the screen was cleared in the iteration that moved the
\* index from 1 to 2, before the screen of index 2 is rendered
C30_Witness ==
    /\ DriverDone("OLED_clearScreen") /\ progPc = "render" /\ primescreen = 2
    /\ todo = Tail(rendered) /\ IsScreen(todo, 2)

-----------------------------------------------------------------------------
(* The two backends *)

\* the values of the firmware's main() the sketch holds as well
Shared == [voltage |-> voltage, current |-> current, power |-> power,
           capacity |-> capacity, energy |-> energy, duration |-> duration,
           minvoltage |-> minvoltage, maxvoltage |-> maxvoltage,
           mincurrent |-> mincurrent, maxcurrent |-> maxcurrent,
           minpower |-> minpower, maxpower |-> maxpower,
           primescreen |-> primescreen]

\* C31: fed the same raw voltage and current register values, millisecond
\* readings and button levels in every iteration, the sketch and the firmware
\* hold equal voltage, current, power, capacity, energy, duration in ms, six
\* extrema and screen index after every iteration.
C31_BackendEquivalence ==
    iter > 0 => \A f \in DOMAIN Shared : sketch[f] = Shared[f]

\* both loops have run across the wrap of the millisecond counter, a negative
\* current has been read and the button is pressed, the screen changed
C31_Witness ==
    /\ iter > WrapIters
    /\ lastmillis.hi = 0 /\ sketch.lastmillis = lastmillis
    /\ pinSet = 0 /\ sketch.primescreen = 1
    /\ sketch.mincurrent = 0 /\ sketch.maxcurrent = 5000 /\ sketch.duration.hi = 0

=============================================================================
